---- MODULE Spec2Model ----
(***************************************************************************)
(* A model of the SQL agent of this repository: the SQL safety validator   *)
(* (utils.validate_sql), the tool registry (tools.ToolRegistry) and the    *)
(* ReAct loop (agent.SQLAgent.run).                                        *)
(*                                                                         *)
(* Texts are TLA+ strings; a character is a string of length one.  The     *)
(* validator works on the characters of the query, as the code does.       *)
(***************************************************************************)
EXTENDS Integers, Sequences, FiniteSets, TLC

VARIABLES
    pc,              \* the agent: "off" | "ready" | "loop" | "returned" | "raised"
    step_limit,      \* SQLAgent.step_limit
    step,            \* run(): the loop variable, the iterations completed so far
    history_blocks,  \* SQLAgent.history_blocks
    cache,           \* SQLAgent.cache
    prompt,          \* run(): the prompt of the latest iteration
    llm_out,         \* run(): the model output of the latest iteration
    result,          \* what run() returned or raised
    llm_calls,       \* the calls of llm_complete made by this run()
    tool_calls,      \* the names of the tools this run() invoked (Tool.call)
    executed,        \* the statements the latest iteration gave cursor.execute
    warning,         \* run(): mismatch, the warning printed with the answer ("" for None)
    printed,         \* run(): the warnings it printed, in the order printed
    db,              \* the tables of the database file
    conn,            \* SQLAgent.conn: how it was opened, and its query_only pragma
    asked,           \* the calls of run() begun on this agent
    driver,          \* who calls run(): "caller" (once) | "main" | "interactive"
    vq,        \* validator run: the raw query text handed to validate_sql
    vrefs,     \* validator run: the table names the query was written to reference
    vpc,       \* validator run: "off" | "input" | "validated" | "revalidated"
    vres,      \* validator run: validate_sql(vq, AllowedTables)
    vres2,     \* validator run: validate_sql(vres.text, AllowedTables), once vres accepted
    ptext,     \* parser run: the model output handed to parse_action
    pmade,     \* parser run: how the argument text of ptext was written
    ppc,       \* parser run: "off" | "input" | "parsed" | "twin"
    pres,      \* parser run: parse_action(ptext)
    pres2,     \* parser run: parse_action(ptext with every ' replaced by ")
    rpc,             \* retry_with_backoff: "off" | "loop" | "returned" | "raised"
    max_retries,     \* retry_with_backoff: its parameter
    initial_delay,   \* retry_with_backoff: its parameter
    attempt,         \* retry_with_backoff: the loop variable
    delay,           \* retry_with_backoff: the next sleep
    last_exception,  \* retry_with_backoff: the exception of the latest failed attempt
    func_made,       \* what each call of func did, in call order
    slept,           \* the arguments of time.sleep, in call order
    logged,          \* the lines log_message printed
    rres             \* what retry_with_backoff returned or raised

vvars == <<vq, vrefs, vpc, vres, vres2>>

pvars == <<ptext, pmade, ppc, pres, pres2>>

rvars == <<rpc, max_retries, initial_delay, attempt, delay, last_exception, func_made, slept,
           logged, rres>>

avars == <<pc, step_limit, step, history_blocks, cache, prompt, llm_out, result, llm_calls,
          tool_calls,
           executed, warning, printed, db, conn, asked, driver>>

vars == <<pc, step_limit, step, history_blocks, cache, prompt, llm_out, result, llm_calls,
          tool_calls,
          executed, warning, printed, db, conn, asked, driver,
          vq, vrefs, vpc, vres, vres2, ptext, pmade, ppc, pres, pres2,
          rpc, max_retries, initial_delay, attempt, delay, last_exception, func_made, slept,
          logged, rres>>

-----------------------------------------------------------------------------
(* Characters and Python's str helpers                                     *)

LowerLetters == "abcdefghijklmnopqrstuvwxyz"
UpperLetters == "ABCDEFGHIJKLMNOPQRSTUVWXYZ"
Digits == "0123456789"

Ch(s, i) == SubSeq(s, i, i)

CharsOf(s) == { Ch(s, i) : i \in 1..Len(s) }

\* str.strip() and the regex class \s
Whitespace == {" ", "\t", "\n", "\r", "\f"}

\* the regex class [A-Za-z_]
IdentStart == CharsOf(LowerLetters) \cup CharsOf(UpperLetters) \cup {"_"}

\* the regex classes [A-Za-z0-9_] and \w
IdentChar == IdentStart \cup CharsOf(Digits)

LowerSet == CharsOf(LowerLetters)

\* str.upper() of one character
UpperChar(c) ==
    IF c \in LowerSet
    THEN Ch(UpperLetters, CHOOSE i \in 1..Len(LowerLetters) : Ch(LowerLetters, i) = c)
    ELSE c

\* str.lower() of one character
LowerChar(c) ==
    IF c \in CharsOf(UpperLetters)
    THEN Ch(LowerLetters, CHOOSE i \in 1..Len(UpperLetters) : Ch(UpperLetters, i) = c)
    ELSE c

\* str.lower()
RECURSIVE Lower(_)
Lower(s) == IF s = "" THEN "" ELSE LowerChar(Ch(s, 1)) \o Lower(SubSeq(s, 2, Len(s)))

\* str.upper()
RECURSIVE Upper(_)
Upper(s) == IF s = "" THEN "" ELSE UpperChar(Ch(s, 1)) \o Upper(SubSeq(s, 2, Len(s)))

\* str.lstrip(chars) / str.rstrip(chars) / str.strip(chars)
RECURSIVE LStripChars(_, _)
LStripChars(s, cs) ==
    IF s # "" /\ Ch(s, 1) \in cs THEN LStripChars(SubSeq(s, 2, Len(s)), cs) ELSE s

RECURSIVE RStripChars(_, _)
RStripChars(s, cs) ==
    IF s # "" /\ Ch(s, Len(s)) \in cs THEN RStripChars(SubSeq(s, 1, Len(s) - 1), cs) ELSE s

StripChars(s, cs) == RStripChars(LStripChars(s, cs), cs)

\* str.startswith
StartsWith(s, p) == Len(s) >= Len(p) /\ SubSeq(s, 1, Len(p)) = p

\* p occurs in s at position i
OccursAt(s, p, i) == i >= 1 /\ i + Len(p) - 1 <= Len(s) /\ SubSeq(s, i, i + Len(p) - 1) = p

\* the "in" operator on str
Contains(s, p) == \E i \in 1..(Len(s) + 1) : OccursAt(s, p, i)

\* str.count of a single character
CountChar(s, c) == Cardinality({ i \in 1..Len(s) : Ch(s, i) = c })

\* sep.join(list)
RECURSIVE Join(_, _)
Join(list, sep) ==
    IF list = <<>> THEN ""
    ELSE IF Len(list) = 1 THEN list[1]
    ELSE list[1] \o sep \o Join(Tail(list), sep)

\* sequences over S of length lo..hi
SeqsOf(S, lo, hi) == UNION { [1..n -> S] : n \in lo..hi }

-----------------------------------------------------------------------------
(* utils.validate_sql                                                      *)

\* the regex assertion \b at the gap before position i (1..Len(s)+1)
WordBoundary(s, i) ==
    LET before == i > 1 /\ Ch(s, i - 1) \in IdentChar
        after  == i <= Len(s) /\ Ch(s, i) \in IdentChar
    IN  before # after

\* re.search(rf'\b{keyword}\b', s)
SearchWord(s, keyword) ==
    \E i \in 1..Len(s) :
        /\ OccursAt(s, keyword, i)
        /\ WordBoundary(s, i)
        /\ WordBoundary(s, i + Len(keyword))

forbidden ==
    << "INSERT", "UPDATE", "DELETE", "DROP", "ALTER",
       "CREATE", "TRUNCATE", "REPLACE", "PRAGMA" >>

\* end (exclusive) of the longest run of characters of class cs starting at i
RECURSIVE RunEnd(_, _, _)
RunEnd(s, i, cs) == IF i <= Len(s) /\ Ch(s, i) \in cs THEN RunEnd(s, i + 1, cs) ELSE i

\* The match of kw\s+([A-Za-z_][A-Za-z0-9_]*) at position i of s, as
\* <<captured group, end of match>>, or <<>> when there is none.  s is the
\* uppercased query, so re.IGNORECASE changes nothing.  \s+ is greedy and the
\* identifier cannot start with whitespace, so no backtracking finds more.
MatchTableAt(s, kw, i) ==
    IF ~OccursAt(s, kw, i) THEN <<>>
    ELSE LET ws == i + Len(kw)
             id == RunEnd(s, ws, Whitespace)
         IN  IF id = ws \/ id > Len(s) \/ Ch(s, id) \notin IdentStart THEN <<>>
             ELSE LET e == RunEnd(s, id, IdentChar)
                  IN  << SubSeq(s, id, e - 1), e >>

\* re.findall(pattern, s): the groups of the non-overlapping matches, left to right
RECURSIVE FindTables(_, _, _)
FindTables(s, kw, i) ==
    IF i > Len(s) THEN <<>>
    ELSE LET m == MatchTableAt(s, kw, i)
         IN  IF m = <<>> THEN FindTables(s, kw, i + 1)
             ELSE <<m[1]>> \o FindTables(s, kw, m[2])

\* tables_in_query: the FROM matches, then the JOIN matches
TablesInQuery(query_upper) ==
    FindTables(query_upper, "FROM", 1) \o FindTables(query_upper, "JOIN", 1)

\* table.strip of the double quote, then of the single quote; the third strip,
\* of the backquote, is left out: no text of the model holds a backquote
TableClean(table) == StripChars(StripChars(table, {"\""}), {"'"})

Reject(msg) == [ok |-> FALSE, text |-> msg]
Accept(q) == [ok |-> TRUE, text |-> q]

NotSelectMsg == "Only SELECT queries are allowed (read-only mode)"
ForbiddenMsg(keyword) ==
    "Forbidden keyword '" \o keyword \o "' detected. Only SELECT queries allowed."
UnknownTableMsg(table, allowed_tables) ==
    "Unknown or disallowed table '" \o table \o "'. Available tables: "
        \o Join(allowed_tables, ", ") \o ". Use list_tables or describe_table first."
MultipleMsg == "Multiple statements not allowed"

\* a slip: the keywords searched in the text as written, not uppercased
KeywordHaystack_AsWritten(query_stripped) == query_stripped

\* the text the forbidden-keyword loop searches
KeywordHaystack(query_stripped) == Upper(query_stripped)

\* the row cap is appended unless the letters LIMIT occur in the uppercased text
NeedsLimit(query_upper) == ~Contains(query_upper, "LIMIT")

\* query_stripped.rstrip(";")
QueryClean(query_stripped) == RStripChars(query_stripped, {";"})

\* a slip: the keywords are looked for before the check for SELECT
validate_sql_KeywordsFirst(query, allowed_tables) ==
    LET query_stripped == StripChars(query, Whitespace)
        query_upper == Upper(query_stripped)
        hit == { k \in 1..Len(forbidden) :
                    SearchWord(KeywordHaystack(query_stripped), forbidden[k]) }
        tables_in_query == TablesInQuery(query_upper)
        allowed_tables_upper == { Upper(allowed_tables[k]) : k \in 1..Len(allowed_tables) }
        bad == { k \in 1..Len(tables_in_query) :
                    TableClean(tables_in_query[k]) \notin allowed_tables_upper }
        query_clean == QueryClean(query_stripped)
    IN  IF hit # {}
            THEN Reject(ForbiddenMsg(forbidden[CHOOSE k \in hit : \A j \in hit : k <= j]))
        ELSE IF ~StartsWith(query_upper, "SELECT") THEN Reject(NotSelectMsg)
        ELSE IF bad # {}
            THEN Reject(UnknownTableMsg(
                     tables_in_query[CHOOSE k \in bad : \A j \in bad : k <= j],
                     allowed_tables))
        ELSE IF CountChar(query_stripped, ";") > 1 THEN Reject(MultipleMsg)
        ELSE IF NeedsLimit(query_upper) THEN Accept(query_clean \o " LIMIT 100")
        ELSE Accept(query_clean)

\* validate_sql(query, allowed_tables): Reject(reason) or Accept(query text)
validate_sql(query, allowed_tables) ==
    LET query_stripped == StripChars(query, Whitespace)
        query_upper == Upper(query_stripped)
        hit == { k \in 1..Len(forbidden) :
                    SearchWord(KeywordHaystack(query_stripped), forbidden[k]) }
        tables_in_query == TablesInQuery(query_upper)
        allowed_tables_upper == { Upper(allowed_tables[k]) : k \in 1..Len(allowed_tables) }
        bad == { k \in 1..Len(tables_in_query) :
                    TableClean(tables_in_query[k]) \notin allowed_tables_upper }
        query_clean == QueryClean(query_stripped)
    IN  IF ~StartsWith(query_upper, "SELECT") THEN Reject(NotSelectMsg)
        ELSE IF hit # {}
            THEN Reject(ForbiddenMsg(forbidden[CHOOSE k \in hit : \A j \in hit : k <= j]))
        ELSE IF bad # {}
            THEN Reject(UnknownTableMsg(
                     tables_in_query[CHOOSE k \in bad : \A j \in bad : k <= j],
                     allowed_tables))
        ELSE IF CountChar(query_stripped, ";") > 1 THEN Reject(MultipleMsg)
        ELSE IF NeedsLimit(query_upper) THEN Accept(query_clean \o " LIMIT 100")
        ELSE Accept(query_clean)

-----------------------------------------------------------------------------
(* Python values: a value carries its type, as isinstance sees it          *)

PyNone == [t |-> "none", v |-> 0]
PyStr(s) == [t |-> "str", v |-> s]
PyInt(n) == [t |-> "int", v |-> n]
PyList(items) == [t |-> "list", v |-> items]
\* a dict is the sequence of its <<key, value>> items, in insertion order
PyDict(items) == [t |-> "dict", v |-> items]

DictHas(d, key) == \E k \in 1..Len(d.v) : d.v[k][1] = key
DictGet(d, key) ==
    IF DictHas(d, key) THEN d.v[CHOOSE k \in 1..Len(d.v) : d.v[k][1] = key][2] ELSE PyNone
DictSet(d, key, val) ==
    IF DictHas(d, key)
    THEN PyDict([k \in 1..Len(d.v) |-> IF d.v[k][1] = key THEN <<key, val>> ELSE d.v[k]])
    ELSE PyDict(Append(d.v, <<key, val>>))
DictKeys(d) == [k \in 1..Len(d.v) |-> d.v[k][1]]

\* str(n) of an int
RECURSIVE NatToStr(_)
NatToStr(n) == IF n < 10 THEN Ch(Digits, n + 1) ELSE NatToStr(n \div 10) \o Ch(Digits, (n % 10) + 1)
IntToStr(n) == IF n < 0 THEN "-" \o NatToStr(-n) ELSE NatToStr(n)

\* repr of a str: single quotes, or double quotes when the text holds a
\* single quote and no double quote (no text of the model holds both)
StrRepr(s) ==
    IF Contains(s, "'") /\ ~Contains(s, "\"") THEN "\"" \o s \o "\"" ELSE "'" \o s \o "'"

\* json.dumps of a str (no text of the model needs escaping other than the quote)
RECURSIVE JsonEscape(_)
JsonEscape(s) ==
    IF s = "" THEN ""
    ELSE (IF Ch(s, 1) = "\"" THEN "\\\"" ELSE Ch(s, 1)) \o JsonEscape(SubSeq(s, 2, Len(s)))

RECURSIVE PyRepr(_), ReprItems(_), ReprPairs(_)
\* repr(value), the text of str(list) and of a dict inside an f-string
PyRepr(x) ==
    CASE x.t = "none" -> "None"
      [] x.t = "str" -> StrRepr(x.v)
      [] x.t = "int" -> IntToStr(x.v)
      [] x.t = "list" -> "[" \o ReprItems(x.v) \o "]"
      [] x.t = "dict" -> "{" \o ReprPairs(x.v) \o "}"
ReprItems(items) ==
    IF items = <<>> THEN ""
    ELSE PyRepr(items[1]) \o (IF Len(items) > 1 THEN ", " \o ReprItems(Tail(items)) ELSE "")
ReprPairs(items) ==
    IF items = <<>> THEN ""
    ELSE StrRepr(items[1][1]) \o ": " \o PyRepr(items[1][2])
            \o (IF Len(items) > 1 THEN ", " \o ReprPairs(Tail(items)) ELSE "")

RECURSIVE JsonDumps(_), JsonItems(_), JsonPairs(_)
\* json.dumps(value)
JsonDumps(x) ==
    CASE x.t = "none" -> "null"
      [] x.t = "str" -> "\"" \o JsonEscape(x.v) \o "\""
      [] x.t = "int" -> IntToStr(x.v)
      [] x.t = "list" -> "[" \o JsonItems(x.v) \o "]"
      [] x.t = "dict" -> "{" \o JsonPairs(x.v) \o "}"
JsonItems(items) ==
    IF items = <<>> THEN ""
    ELSE JsonDumps(items[1]) \o (IF Len(items) > 1 THEN ", " \o JsonItems(Tail(items)) ELSE "")
JsonPairs(items) ==
    IF items = <<>> THEN ""
    ELSE "\"" \o JsonEscape(items[1][1]) \o "\": " \o JsonDumps(items[1][2])
            \o (IF Len(items) > 1 THEN ", " \o JsonPairs(Tail(items)) ELSE "")

\* text[:n]
\* s * n
RECURSIVE Repeat(_, _)
Repeat(s, n) ==
    IF n = 0 THEN ""
    ELSE IF n % 2 = 0 THEN Repeat(s \o s, n \div 2)
    ELSE s \o Repeat(s \o s, n \div 2)

Prefix(text, n) == SubSeq(text, 1, IF Len(text) < n THEN Len(text) ELSE n)

-----------------------------------------------------------------------------
(* The database behind the connection, and tools.ToolRegistry              *)

\* the tables of the database file, ordered by name; a column is <<name, type>>
InitialDatabase ==
    << [name |-> "emp",
        columns |-> << <<"id", "INTEGER">>, <<"emp_job", "TEXT">> >>,
        rows |-> << <<PyInt(1), PyStr("Plasterers")>> >>],
       [name |-> "sample",
        columns |-> << <<"id", "INTEGER">>, <<"gender", "TEXT">> >>,
        rows |-> << <<PyInt(1), PyStr("F")>>, <<PyInt(2), PyStr("M")>> >>] >>

\* SQLAgent.__init__, lines 37-41: the connection is opened read-only (ro)
\* or, when that open fails, normally; query_only is then switched on
Connect(ro_opened) == [ro |-> ro_opened, query_only |-> TRUE]

\* the table named name; the engine matches table names in any letter case
HasTable(d, name) == \E k \in 1..Len(d) : Upper(d[k].name) = Upper(name)
TableOf(d, name) == d[CHOOSE k \in 1..Len(d) : Upper(d[k].name) = Upper(name)]

\* what a call returns: a value, or an exception
Returned(value) == [raised |-> FALSE, exc |-> "", msg |-> "", out |-> value]
Raised(exc, msg) == [raised |-> TRUE, exc |-> exc, msg |-> msg, out |-> PyNone]

\* what a call on the connection did: r as above, the database and connection
\* e it leaves, and the statements ran that cursor.execute was given
Did(r, e, ran) ==
    [raised |-> r.raised, exc |-> r.exc, msg |-> r.msg, out |-> r.out, eng |-> e, ran |-> ran]

\* int(text) of a run of digits
RECURSIVE DigitsToNat(_)
DigitsToNat(s) ==
    IF s = "" THEN 0
    ELSE 10 * DigitsToNat(SubSeq(s, 1, Len(s) - 1))
            + (CHOOSE n \in 0..9 : Ch(Digits, n + 1) = Ch(s, Len(s)))

\* the token of q at position i ("" at the end of the text)
TokenAt(q, i) ==
    IF i > Len(q) THEN ""
    ELSE IF Ch(q, i) \in IdentChar THEN SubSeq(q, i, RunEnd(q, i, IdentChar) - 1)
    ELSE Ch(q, i)

\* the engine's complaint about the token at position i
SyntaxError(q, i) ==
    IF TokenAt(q, i) = "" THEN Raised("OperationalError", "incomplete input")
    ELSE Raised("OperationalError", "near \"" \o TokenAt(q, i) \o "\": syntax error")

\* a table name at position i of q, bare or in double quotes, and the position
\* after it; the name is "" when there is none
NameAt(q, i) ==
    IF i <= Len(q) /\ Ch(q, i) = "\""
    THEN LET j == RunEnd(q, i + 1, IdentChar)
         IN  IF j > i + 1 /\ j <= Len(q) /\ Ch(q, j) = "\""
             THEN [name |-> SubSeq(q, i + 1, j - 1), next |-> j + 1]
             ELSE [name |-> "", next |-> i]
    ELSE [name |-> SubSeq(q, i, RunEnd(q, i, IdentChar) - 1), next |-> RunEnd(q, i, IdentChar)]

\* position i of q after whitespace
Skip(q, i) == RunEnd(q, i, Whitespace)

\* the keyword kw (upper case) stands at position i of q, as a whole word
KeywordAt(q, kw, i) ==
    /\ OccursAt(Upper(q), kw, i)
    /\ (i + Len(kw) > Len(q) \/ Ch(q, i + Len(kw)) \notin IdentChar)

\* a statement the engine compiled: what it is, the table it names and the
\* position where it ends
Stmt(kind, table, arg, end) ==
    [bad |-> FALSE, err |-> Returned(PyNone), kind |-> kind, table |-> table, arg |-> arg, end |-> end]
NoStmt(err) ==
    [bad |-> TRUE, err |-> err, kind |-> "", table |-> "", arg |-> 0, end |-> 0]

\* the statement ends at position i: the end of the text or a separator
EndsAt(q, i) == Skip(q, i) > Len(q) \/ Ch(q, Skip(q, i)) = ";"

\* PRAGMA table_info(name) from the position i after the word PRAGMA
PragmaStmt(q, i) ==
    IF KeywordAt(q, "TABLE_INFO", i)
    THEN LET open == Skip(q, i + 10)
             nm == NameAt(q, Skip(q, open + 1))
             close == Skip(q, nm.next)
         IN  IF open > Len(q) \/ Ch(q, open) # "(" THEN NoStmt(SyntaxError(q, open))
             ELSE IF nm.name = "" THEN NoStmt(SyntaxError(q, nm.next))
             ELSE IF close > Len(q) \/ Ch(q, close) # ")" THEN NoStmt(SyntaxError(q, close))
             ELSE IF ~EndsAt(q, close + 1) THEN NoStmt(SyntaxError(q, Skip(q, close + 1)))
             ELSE Stmt("table_info", nm.name, 0, Skip(q, close + 1))
    ELSE IF KeywordAt(q, "QUERY_ONLY", i)
    THEN LET eq == Skip(q, i + 10)
             val == Skip(q, eq + 1)
         IN  IF eq > Len(q) \/ Ch(q, eq) # "=" THEN NoStmt(SyntaxError(q, eq))
             ELSE IF KeywordAt(q, "OFF", val) /\ EndsAt(q, val + 3)
             THEN Stmt("query_only", "", 0, Skip(q, val + 3))
             ELSE IF KeywordAt(q, "ON", val) /\ EndsAt(q, val + 2)
             THEN Stmt("query_only", "", 1, Skip(q, val + 2))
             ELSE NoStmt(SyntaxError(q, val))
    ELSE NoStmt(SyntaxError(q, i))

\* kind FROM/TABLE name [LIMIT n], from the position i where the name is due
TableStmt(q, kind, i, may_limit) ==
    LET nm == NameAt(q, i)
        lim == Skip(q, nm.next)
        num == Skip(q, lim + 5)
        stop == RunEnd(q, num, CharsOf(Digits))
    IN  IF nm.name = "" \/ Ch(nm.name, 1) \in CharsOf(Digits) THEN NoStmt(SyntaxError(q, i))
        ELSE IF EndsAt(q, nm.next) THEN Stmt(kind, nm.name, -1, lim)
        ELSE IF may_limit /\ KeywordAt(q, "LIMIT", lim) /\ stop > num /\ EndsAt(q, stop)
        THEN Stmt(kind, nm.name, DigitsToNat(SubSeq(q, num, stop - 1)), Skip(q, stop))
        ELSE NoStmt(SyntaxError(q, lim))

\* SELECT * FROM ... or SELECT COUNT(*) FROM ..., from the position i after
\* the word SELECT
SelectStmt(q, i) ==
    LET kind == IF OccursAt(Upper(q), "COUNT(*)", i) THEN "count" ELSE "select"
        from == Skip(q, i + (IF kind = "count" THEN 8 ELSE 1))
    IN  IF kind = "select" /\ TokenAt(q, i) # "*" THEN NoStmt(SyntaxError(q, i))
        ELSE IF ~KeywordAt(q, "FROM", from) THEN NoStmt(SyntaxError(q, from))
        ELSE TableStmt(q, kind, Skip(q, from + 4), TRUE)

\* The first statement of the text q as the engine compiles it.  The model
\* knows the statement forms the tools and the model outputs of the runs
\* produce: PRAGMA table_info(t), PRAGMA query_only = ON|OFF, SELECT * FROM t
\* [LIMIT n], SELECT COUNT(*) FROM t, DELETE FROM t and DROP TABLE t; any
\* other text is answered with the engine's syntax error.
Compile(q) ==
    LET i == Skip(q, 1)
    IN  IF KeywordAt(q, "PRAGMA", i) THEN PragmaStmt(q, Skip(q, i + 6))
        ELSE IF KeywordAt(q, "SELECT", i) THEN SelectStmt(q, Skip(q, i + 6))
        ELSE IF KeywordAt(q, "DELETE", i) /\ KeywordAt(q, "FROM", Skip(q, i + 6))
        THEN TableStmt(q, "delete", Skip(q, Skip(q, i + 6) + 4), FALSE)
        ELSE IF KeywordAt(q, "DROP", i) /\ KeywordAt(q, "TABLE", Skip(q, i + 4))
        THEN TableStmt(q, "drop", Skip(q, Skip(q, i + 4) + 5), FALSE)
        ELSE NoStmt(SyntaxError(q, i))

\* sqlite3 refuses a text with something after its first statement, comments
\* and whitespace apart
HasChainedStatement(q, end) ==
    LET rest == StripChars(SubSeq(q, end + 1, Len(q)), Whitespace)
    IN  end <= Len(q) /\ rest # "" /\ ~StartsWith(rest, "--")

\* the database without the rows of the table, or without the table
Emptied(d, name) ==
    [k \in 1..Len(d) |-> IF Upper(d[k].name) = Upper(name) THEN [d[k] EXCEPT !.rows = <<>>] ELSE d[k]]
Dropped(d, name) == SelectSeq(d, LAMBDA t : Upper(t.name) # Upper(name))

\* what a statement gives back: cursor.description and fetchall()
Rows(columns, rows) == Returned([columns |-> columns, rows |-> rows])

\* the compiled statement st is stepped on the database and connection e
Step(st, e) ==
    CASE st.kind = "table_info" ->
            Rows(<<"cid", "name", "type", "notnull", "dflt_value", "pk">>,
                 IF HasTable(e.db, st.table)
                 THEN LET tb == TableOf(e.db, st.table)
                      IN  [k \in 1..Len(tb.columns) |->
                              <<PyInt(k - 1), PyStr(tb.columns[k][1]), PyStr(tb.columns[k][2]),
                                PyInt(0), PyNone, PyInt(0)>>]
                 ELSE <<>>)
      [] st.kind = "count" ->
            Rows(<<"COUNT(*)">>, << <<PyInt(Len(TableOf(e.db, st.table).rows))>> >>)
      [] st.kind = "select" ->
            LET tb == TableOf(e.db, st.table)
                n == IF st.arg >= 0 /\ st.arg < Len(tb.rows) THEN st.arg ELSE Len(tb.rows)
            IN  Rows([k \in 1..Len(tb.columns) |-> tb.columns[k][1]], SubSeq(tb.rows, 1, n))
      [] OTHER -> Rows(<<>>, <<>>)

\* the database and connection the compiled statement st leaves
Effect(st, e) ==
    CASE st.kind = "delete" -> [e EXCEPT !.db = Emptied(@, st.table)]
      [] st.kind = "drop" -> [e EXCEPT !.db = Dropped(@, st.table)]
      [] st.kind = "query_only" -> [e EXCEPT !.conn.query_only = (st.arg = 1)]
      [] OTHER -> e

\* the connection refuses to write
ReadOnly(e) == e.conn.ro \/ e.conn.query_only

\* cursor.execute(q) on the database and connection e
Compiled(q, st, e) ==
    IF st.bad THEN Did(st.err, e, <<q>>)
    ELSE IF st.kind \in {"count", "select", "delete", "drop"} /\ ~HasTable(e.db, st.table)
    THEN Did(Raised("OperationalError", "no such table: " \o st.table), e, <<q>>)
    ELSE IF HasChainedStatement(q, st.end)
    THEN Did(Raised("ProgrammingError", "You can only execute one statement at a time."), e, <<q>>)
    ELSE IF st.kind \in {"delete", "drop"} /\ ReadOnly(e)
    THEN Did(Raised("OperationalError", "attempt to write a readonly database"), e, <<q>>)
    ELSE Did(Step(st, e), Effect(st, e), <<q>>)

Execute(q, e) == Compiled(q, Compile(q), e)

\* the statement of ToolRegistry._list_tables
ListTablesSql ==
    "SELECT name FROM sqlite_master WHERE type='table' "
        \o "AND name NOT LIKE 'sqlite_%' ORDER BY name"

\* ToolRegistry._list_tables
ListTableNames(d) == [k \in 1..Len(d) |-> d[k].name]
list_tables(e) ==
    Did(Returned(PyList([k \in 1..Len(e.db) |-> PyStr(e.db[k].name)])), e, <<ListTablesSql>>)

\* str(value), as an f-string formats it
PyStrOf(x) == IF x.t = "str" THEN x.v ELSE PyRepr(x)

\* ToolRegistry._describe_table, lines 81-89: info is what the PRAGMA did and
\* count what the COUNT(*) did
Described(table_name, info, count) ==
    IF count.raised THEN Did(count, count.eng, info.ran \o count.ran)
    ELSE Did(Returned(PyDict(<<
                 <<"table_name", table_name>>,
                 <<"columns", PyList([k \in 1..Len(info.out.rows) |->
                     PyDict(<< <<"name", info.out.rows[k][2]>>,
                               <<"type", info.out.rows[k][3]>> >>)])>>,
                 <<"row_count", count.out.rows[1][1]>> >>)),
             count.eng, info.ran \o count.ran)

\* ToolRegistry._describe_table, lines 78-89
AfterTableInfo(table_name, info) ==
    IF info.raised THEN info
    ELSE Described(table_name, info,
                   Execute("SELECT COUNT(*) FROM " \o PyStrOf(table_name), info.eng))

\* ToolRegistry._describe_table: the name goes into both statements as written
describe_table(table_name, e) ==
    AfterTableInfo(table_name, Execute("PRAGMA table_info(" \o PyStrOf(table_name) \o ")", e))

\* ToolRegistry._query_database, lines 98-106: the accepted text was run; r
\* is what the engine did with it
RunAccepted(r) ==
    IF r.raised
    THEN Did(Returned(PyDict(<< <<"error", PyStr(r.exc \o ": " \o r.msg)>> >>)),
             r.eng, <<ListTablesSql>> \o r.ran)
    ELSE Did(Returned(PyDict(<<
                 <<"columns", PyList([k \in 1..Len(r.out.columns) |-> PyStr(r.out.columns[k])])>>,
                 <<"rows", PyList([k \in 1..Len(r.out.rows) |-> PyList(r.out.rows[k])])>>,
                 <<"row_count", PyInt(Len(r.out.rows))>> >>)),
             r.eng, <<ListTablesSql>> \o r.ran)

\* ToolRegistry._query_database, lines 94-98: verdict is what validate_sql said
AfterVerdict(verdict, e) ==
    IF ~verdict.ok
    THEN Did(Returned(PyDict(<< <<"error", PyStr(verdict.text)>> >>)), e, <<ListTablesSql>>)
    ELSE RunAccepted(Execute(verdict.text, e))

\* a slip: the query is run as written, on a connection left writable
query_database_Raw(query, e) ==
    RunAccepted(Execute(PyStrOf(query), [e EXCEPT !.conn.query_only = FALSE]))

\* ToolRegistry._query_database
query_database(query, e) ==
    IF query.t # "str"
    THEN Did(Raised("AttributeError", "'" \o query.t \o "' object has no attribute 'strip'"),
             e, <<ListTablesSql>>)
    ELSE AfterVerdict(validate_sql(query.v, ListTableNames(e.db)), e)

\* ToolRegistry._register_tools: the tools, with the parameters of each lambda
ToolNames == <<"list_tables", "describe_table", "query_database">>
ToolParams(name) ==
    CASE name = "list_tables" -> <<>>
      [] name = "describe_table" -> <<"table_name">>
      [] name = "query_database" -> <<"query">>

\* ToolRegistry.get_tool: is the name registered
IsRegistered(name) == \E k \in 1..Len(ToolNames) : ToolNames[k] = name

LambdaName == "ToolRegistry._register_tools.<locals>.<lambda>()"

\* Tool.call(**kwargs): Python binds the keywords to the lambda's parameters,
\* then the lambda runs the tool
ToolCall(name, args, e) ==
    LET params == ToolParams(name)
        keys == DictKeys(args)
        extra == { k \in 1..Len(keys) : \A j \in 1..Len(params) : params[j] # keys[k] }
        missing == { j \in 1..Len(params) : ~DictHas(args, params[j]) }
    IN  IF extra # {}
        THEN Did(Raised("TypeError", LambdaName \o " got an unexpected keyword argument '"
                        \o keys[CHOOSE k \in extra : \A j \in extra : k <= j] \o "'"), e, <<>>)
        ELSE IF missing # {}
        THEN Did(Raised("TypeError", LambdaName \o " missing 1 required positional argument: '"
                        \o params[CHOOSE k \in missing : \A j \in missing : k <= j] \o "'"), e, <<>>)
        ELSE CASE name = "list_tables" -> list_tables(e)
               [] name = "describe_table" -> describe_table(DictGet(args, "table_name"), e)
               [] name = "query_database" -> query_database(DictGet(args, "query"), e)

-----------------------------------------------------------------------------
(* agent.SQLAgent                                                          *)

\* the cap on an observation's characters
ObsCap == 2000

\* EvidenceCache(); the keys of schema and row_counts are Python values
EmptyCache == [tables |-> PyList(<<>>), schema |-> PyDict(<<>>), row_counts |-> PyDict(<<>>)]

\* _norm_table_arg
_norm_table_arg(args) ==
    IF DictHas(args, "table") THEN DictSet(args, "table_name", DictGet(args, "table")) ELSE args

\* bool(value)
Truthy(x) ==
    CASE x.t = "none" -> FALSE
      [] x.t = "str" -> x.v # ""
      [] x.t = "int" -> x.v # 0
      [] OTHER -> x.v # <<>>

\* a slip: the columns are kept as the tool returned them and the row count
\* is not kept
_ingest_observation_Raw(c, tool_name, out, args) ==
    IF tool_name = "list_tables" /\ out.t = "list" THEN [c EXCEPT !.tables = out]
    ELSE IF tool_name = "describe_table" /\ out.t = "dict"
    THEN [c EXCEPT !.schema = DictSet(@, DictGet(args, "table_name"), DictGet(out, "columns"))]
    ELSE c

\* a slip: the row count of a query's result is kept as the count of sample,
\* and a describe_table starts the schema afresh
_ingest_observation_Eager(c, tool_name, out, args) ==
    IF tool_name = "list_tables" /\ out.t = "list" THEN [c EXCEPT !.tables = out]
    ELSE IF tool_name = "describe_table" /\ out.t = "dict" /\ DictHas(out, "row_count")
    THEN [c EXCEPT !.schema = PyDict(<< <<DictGet(args, "table_name"), DictGet(out, "columns")>> >>),
                   !.row_counts = DictSet(@, DictGet(args, "table_name"), DictGet(out, "row_count"))]
    ELSE IF tool_name = "query_database" /\ out.t = "dict" /\ DictHas(out, "row_count")
    THEN [c EXCEPT !.row_counts = DictSet(@, PyStr("sample"), DictGet(out, "row_count"))]
    ELSE c

\* SQLAgent._ingest_observation, as the cache it leaves; the tools' results
\* have the shapes it reads, so nothing raises inside it
_ingest_observation(c, tool_name, out, args) ==
    IF tool_name = "list_tables"
    THEN IF out.t = "list" THEN [c EXCEPT !.tables = out]
         ELSE IF out.t = "dict" /\ DictHas(out, "tables")
              THEN [c EXCEPT !.tables = DictGet(out, "tables")]
              ELSE c
    ELSE IF tool_name = "describe_table"
    THEN LET tbl == IF Truthy(DictGet(args, "table_name")) THEN DictGet(args, "table_name")
                    ELSE DictGet(args, "table")
             key == tbl
         IN  IF out.t # "dict" THEN c
             ELSE LET cols == DictGet(out, "columns")
                      rc == DictGet(out, "row_count")
                      named == /\ cols.t = "list" /\ cols.v # <<>>
                               /\ cols.v[1].t = "dict" /\ DictHas(cols.v[1], "name")
                      c1 == IF cols.t # "list" THEN c
                            ELSE IF named
                            THEN [c EXCEPT !.schema = DictSet(@, key,
                                     PyList([k \in 1..Len(cols.v) |-> DictGet(cols.v[k], "name")]))]
                            ELSE [c EXCEPT !.schema = DictSet(@, key, cols)]
                  IN  IF rc.t = "int" THEN [c1 EXCEPT !.row_counts = DictSet(@, key, rc)]
                      ELSE c1
    ELSE c

\* the text _call_tool makes of a tool's result
ObservationText(out) ==
    IF out.t = "list" THEN Prefix(PyRepr(out), ObsCap)
    ELSE IF out.t = "dict"
    THEN LET body == JsonDumps(out)
         IN  IF Len(body) > ObsCap THEN Prefix(body, ObsCap) \o " ...[truncated]" ELSE body
    ELSE Prefix(IF out.t = "str" THEN out.v ELSE PyRepr(out), ObsCap)

\* a slip: the exception of a tool is let through
AfterToolCall_Propagating(name, args, c, r) ==
    [raised |-> r.raised, exc |-> r.exc, msg |-> r.msg,
     obs |-> IF r.raised THEN "" ELSE ObservationText(r.out),
     cache |-> IF r.raised THEN c ELSE _ingest_observation(c, name, r.out, args),
     args |-> args, called |-> TRUE, eng |-> r.eng, ran |-> r.ran]

\* SQLAgent._call_tool, lines 55-68: r is what Tool.call(**args) did
AfterToolCall(name, args, c, r) ==
    IF r.raised
    THEN [raised |-> FALSE, exc |-> "", msg |-> "",
          obs |-> "ERROR: " \o r.exc \o ": " \o r.msg,
          cache |-> c, args |-> args, called |-> TRUE, eng |-> r.eng, ran |-> r.ran]
    ELSE [raised |-> FALSE, exc |-> "", msg |-> "",
          obs |-> ObservationText(r.out),
          cache |-> _ingest_observation(c, name, r.out, args),
          args |-> args, called |-> TRUE, eng |-> r.eng, ran |-> r.ran]

\* SQLAgent._call_tool, lines 54-68: args is the mapping after _norm_table_arg
CallNormalized(name, args, c, e) ==
    IF ~IsRegistered(name)
    THEN [raised |-> TRUE, exc |-> "ValueError", msg |-> "Tool '" \o name \o "' not found",
          obs |-> "", cache |-> c, args |-> args, called |-> FALSE, eng |-> e, ran |-> <<>>]
    ELSE AfterToolCall(name, args, c, ToolCall(name, args, e))

\* SQLAgent._call_tool(name, args) with the cache c, on the database and
\* connection e: the observation and the cache it leaves, or the exception it
\* lets through; args is the mapping after _norm_table_arg changed it in
\* place, called tells that Tool.call ran
_call_tool(name, args, c, e) ==
    CallNormalized(name, IF name = "describe_table" THEN _norm_table_arg(args) ELSE args, c, e)

\* A model output, by its sections: the THOUGHT and FINAL ANSWER texts ("" when
\* absent) and what follows the ACTION marker: nothing (kind "none"), a tool
\* name with argument text no strategy decodes (kind "bad"), or a tool name
\* with a decoded argument mapping (kind "call")
NoAction == [kind |-> "none", name |-> "", args |-> PyDict(<<>>), text |-> ""]
BadAction(name, text) == [kind |-> "bad", name |-> name, args |-> PyDict(<<>>), text |-> text]
Call(name, items) == [kind |-> "call", name |-> name, args |-> PyDict(items), text |-> ""]
Output(thought, final, act) == [thought |-> thought, final |-> final, act |-> act]

\* extract_section(llm_out, section)
extract_section(out, section) ==
    CASE section = "THOUGHT" -> out.thought
      [] section = "FINAL ANSWER" -> out.final

\* a slip: argument text no strategy decodes is taken as no arguments
parse_action_Lenient(out) ==
    CASE out.act.kind = "none" ->
            Raised("ValueError", "No valid ACTION found in response. "
                                  \o "Expected format: ACTION: tool_name{json_args}")
      [] OTHER -> Returned([tool_name |-> out.act.name, args |-> out.act.args])

\* parse_action(llm_out): the tool name and arguments, or the ValueError
parse_action(out) ==
    CASE out.act.kind = "none" ->
            Raised("ValueError", "No valid ACTION found in response. "
                                  \o "Expected format: ACTION: tool_name{json_args}")
      [] out.act.kind = "bad" ->
            Raised("ValueError", "Could not parse JSON arguments: " \o out.act.text)
      [] out.act.kind = "call" ->
            Returned([tool_name |-> out.act.name, args |-> out.act.args])

\* thought or '(none)'
OrElse(text, default) == IF text # "" THEN text ELSE default

\* a trace block
Block(thought, action, observation) ==
    "THOUGHT: " \o thought \o "\nACTION: " \o action \o "\nOBSERVATION: " \o observation

NoEvidenceObs ==
    "You are answering without running any tool yet. "
        \o "Please gather evidence using one ACTION before concluding."

\* a slip: the evidence guard dropped
NoEvidenceYet_Dropped(blocks) == FALSE

\* run(), line 147: not self.history_blocks
NoEvidenceYet(blocks) == blocks = <<>>

\* history_blocks[-3:]
LastThree(blocks) == SubSeq(blocks, IF Len(blocks) > 3 THEN Len(blocks) - 2 ELSE 1, Len(blocks))

\* the result of run() when the loop ends
Degraded(blocks) ==
    [kind |-> "degraded",
     text |-> "Max step limit reached. Here's what I tried:\n" \o Join(LastThree(blocks), "\n\n")
                 \o "\n\nConsider refining the question or being more specific."]

NoResult == [kind |-> "none", text |-> ""]
NoOutput == Output("", "", NoAction)

\* re.search(r"(\d{2,6})\s+rows", text) matches at position i with n digits
RowsClaimAt(text, i, n) ==
    /\ \A k \in i..(i + n - 1) : k <= Len(text) /\ Ch(text, k) \in CharsOf(Digits)
    /\ Skip(text, i + n) > i + n
    /\ OccursAt(text, "rows", Skip(text, i + n))

\* the first match of the pattern, as <<position, digits>>, or <<>>
RowsClaim(text) ==
    LET at == { i \in 1..Len(text) : \E n \in 2..6 : RowsClaimAt(text, i, n) }
    IN  IF at = {} THEN <<>>
        ELSE LET i == CHOOSE a \in at : \A b \in at : a <= b
             IN  <<i, CHOOSE n \in 2..6 : RowsClaimAt(text, i, n)>>

\* SQLAgent._validate_final_against_evidence: the warning, or "" for None.
\* The list in the first warning is printed in the cache's order, and its
\* typographic apostrophe as a plain one.
_validate_final_against_evidence(final, c) ==
    LET text == Lower(final)
        known == { Lower(c.tables.v[k].v) : k \in 1..Len(c.tables.v) }
        mentioned == { Lower(StripChars(m, {"'"})) : m \in { k \in known : Contains(text, k) } }
        claim == RowsClaim(text)
        claimed == DigitsToNat(SubSeq(text, claim[1], claim[1] + claim[2] - 1))
        rc == DictGet(c.row_counts, PyStr("sample")).v
    IN  IF c.tables.v # <<>> /\ Contains(text, "table") /\ ~(mentioned \subseteq known)
        THEN "Warning: Answer tables don't match known tables "
                 \o PyRepr(PyList([k \in 1..Len(c.tables.v) |-> PyStr(Lower(c.tables.v[k].v))])) \o "."
        ELSE IF DictHas(c.row_counts, PyStr("sample")) /\ claim # <<>>
                  /\ (claimed - rc > 5 \/ rc - claimed > 5)
        THEN "Warning: Claimed " \o NatToStr(claimed) \o " rows, actual " \o IntToStr(rc) \o "."
        ELSE ""

\* prompts.SYSTEM_HEADER
SYSTEM_HEADER ==
    "You are a cautious, read-only SQL Database Agent.\n"
        \o "\n"
        \o "Behavior:\n"
        \o "- After each OBSERVATION, if you still need information, produce ANOTHER ACTION.\n"
        \o "- Do NOT write FINAL ANSWER until you have enough evidence from tools from THIS conversation turn.\n"
        \o "- Never rely on prior assumptions or memory; verify with tools every time.\n"
        \o "- Exactly one ACTION per step. Keep THOUGHT brief.\n"
        \o "- If the last step had an error in OBSERVATION, fix it in the next step.\n"
        \o "- If you have not run any ACTION in the current turn, you MUST NOT produce a FINAL ANSWER.\n"
        \o "FORMAT (strict):\n"
        \o "THOUGHT: ...\n"
        \o "ACTION: <tool_name>{<valid JSON args>}\n"
        \o "OBSERVATION: ...\n"
        \o "...\n"
        \o "FINAL ANSWER: ..."

\* prompts.FEW_SHOT: the first of its example traces
FEW_SHOT ==
    "User: What tables do we have?\n"
        \o "THOUGHT: I should check which tables exist in the database.\n"
        \o "ACTION: list_tables{}\n"
        \o "OBSERVATION: [\"Table 1\", \"Table 2\", \"Table 3\"]\n"
        \o "\n"
        \o "THOUGHT: I now know the tables in the database.\n"
        \o "FINAL ANSWER: The database contains 3 tables named 'Table 1', 'Table 2', and \"Table 3."

\* ToolRegistry.get_tool_descriptions: a line for each registered tool
get_tool_descriptions ==
    Join(<< "- list_tables(): Lists all tables in the database",
            "- describe_table(table_name: string - name of the table to describe): "
                \o "Returns schema details for a specific table including columns, types, "
                \o "and row count",
            "- query_database(query: string - SQL SELECT query to execute): "
                \o "Executes a read-only SELECT query on the database" >>, "\n")

\* the question run() is given
user_query == "How many rows does the sample table have?"

\* a slip: the trace is replayed newest block first
build_prompt_NewestFirst(tool_docs, blocks, query) ==
    Join(<< SYSTEM_HEADER,
            "TOOLS:\n" \o tool_docs \o "\n",
            "EXAMPLE:\n" \o FEW_SHOT,
            "CONVERSATION TRACE:\n"
                \o OrElse(Join([k \in 1..Len(blocks) |-> blocks[Len(blocks) + 1 - k]], "\n"),
                          "(none yet)"),
            "User: " \o query,
            "Respond using the strict FORMAT above." >>, "\n\n")

\* prompts.build_prompt(tool_docs, history_blocks, user_query)
build_prompt(tool_docs, blocks, query) ==
    Join(<< SYSTEM_HEADER,
            "TOOLS:\n" \o tool_docs \o "\n",
            "EXAMPLE:\n" \o FEW_SHOT,
            "CONVERSATION TRACE:\n" \o OrElse(Join(blocks, "\n"), "(none yet)"),
            "User: " \o query,
            "Respond using the strict FORMAT above." >>, "\n\n")

\* a slip: any block of the history counts as fresh evidence
_has_fresh_evidence_this_turn_AnyBlock(blocks, step_start_len) == Len(blocks) > 0

\* SQLAgent._has_fresh_evidence_this_turn, on the history blocks
_has_fresh_evidence_this_turn(blocks, step_start_len) == Len(blocks) > step_start_len

NoFreshEvidenceMsg == "No new evidence gathered this turn before FINAL ANSWER."

\* run(), lines 158-164: what is printed before the answer is returned; fresh
\* is what _has_fresh_evidence_this_turn said and mismatch what the evidence
\* check said
Warnings(fresh, mismatch) ==
    (IF fresh THEN <<>> ELSE <<NoFreshEvidenceMsg>>)
        \o (IF mismatch # "" THEN <<mismatch>> ELSE <<>>)

\* no parser run
ParserOff ==
    /\ ptext = ""
    /\ pmade = [marked |-> FALSE, tool |-> "", args |-> "", expect |-> <<>>, json |-> <<>>,
                single |-> FALSE]
    /\ ppc = "off"
    /\ pres = Raised("", "")
    /\ pres2 = Raised("", "")

\* last_exception = None
NoException == [kind |-> "none", type |-> "NoneType", text |-> "None"]

\* retry_with_backoff is not running
RetryOff ==
    /\ rpc = "off"
    /\ max_retries = 0 /\ initial_delay = 0 /\ attempt = 0 /\ delay = 0
    /\ last_exception = NoException
    /\ func_made = <<>> /\ slept = <<>> /\ logged = <<>>
    /\ rres = NoException

MaxStepLimit == 3    \* the largest step_limit an agent is built with

\* the model outputs a run is fed
LLMOutputs ==
    { Output("I can answer.", "The answer.", NoAction),
      Output("", "The answer.", Call("list_tables", <<>>)),
      Output("", "There are 50 rows in sample.", NoAction),
      Output("", "There are 9 rows in sample.", NoAction),
      Output("", "The table ghost joins sample.", NoAction),
      Output("I should explore the schema.", "", NoAction),
      Output("", "", BadAction("describe_table", "{'table_name': sample}")),
      Output("", "", BadAction("describe_table", "{'table_name': " \o Repeat("x", ObsCap) \o "}")),
      Output("List tables.", "", Call("list_tables", <<>>)),
      Output("", "", Call("list_tables", << <<"x", PyInt(1)>> >>)),
      Output("", "", Call("describe_table", << <<"table_name", PyStr("sample")>> >>)),
      Output("", "", Call("describe_table", << <<"table", PyStr("sample")>> >>)),
      Output("", "", Call("describe_table", << <<"table_name", PyStr("ghost")>> >>)),
      Output("", "", Call("describe_table",
                          << <<"table_name", PyStr("sample); DROP TABLE sample; --")>> >>)),
      Output("", "", Call("query_database", << <<"query", PyStr("SELECT * FROM sample")>> >>)),
      Output("", "", Call("query_database", << <<"query", PyStr("DELETE FROM sample")>> >>)),
      Output("", "", Call("query_database",
                          << <<"query", PyStr(" drop table ghost; DELETE FROM sample;;")>> >>)),
      Output("", "", Call("run_query", << <<"query", PyStr("SELECT * FROM sample")>> >>)) }

\* SQLAgent(llm_complete, db_path, step_limit), by a caller that runs one
\* question
Init ==
    /\ pc = "ready"
    /\ step_limit \in 0..MaxStepLimit
    /\ step = 0
    /\ history_blocks = <<>>
    /\ cache = EmptyCache
    /\ prompt = ""
    /\ llm_out = NoOutput
    /\ result = NoResult
    /\ llm_calls = 0
    /\ tool_calls = <<>>
    /\ executed = <<>>
    /\ warning = "" /\ printed = <<>>
    /\ db = InitialDatabase
    /\ \E ro_opened \in BOOLEAN : conn = Connect(ro_opened)
    /\ asked = 0
    /\ driver = "caller"
    /\ vq = "" /\ vrefs = {} /\ vpc = "off" /\ vres = Reject("") /\ vres2 = Reject("")
    /\ ParserOff
    /\ RetryOff

\* the end of an iteration that did not return: the for loop takes the next
\* step, or ends and run() returns the degraded result
LoopBack(blocks) ==
    /\ step' = step + 1
    /\ IF step + 1 < step_limit
       THEN pc' = "loop" /\ result' = result
       ELSE pc' = "returned" /\ result' = Degraded(blocks)

\* run(user_query) is called: its locals are fresh, the agent's fields are
\* what the agent holds
Run ==
    /\ pc = "ready"
    /\ asked' = asked + 1
    /\ step' = 0 /\ prompt' = "" /\ llm_out' = NoOutput /\ llm_calls' = 0 /\ tool_calls' = <<>>
    /\ executed' = <<>> /\ warning' = "" /\ printed' = <<>>
    /\ IF step_limit > 0
       THEN pc' = "loop" /\ result' = NoResult
       ELSE pc' = "returned" /\ result' = Degraded(history_blocks)
    /\ UNCHANGED <<step_limit, history_blocks, cache, db, conn, driver>>
    /\ UNCHANGED <<vvars, pvars, rvars>>

\* an iteration whose model output has a FINAL ANSWER while the history is
\* empty: the corrective block and continue
FinalDeferred(out) ==
    /\ pc = "loop"
    /\ extract_section(out, "FINAL ANSWER") # ""
    /\ NoEvidenceYet(history_blocks)
    /\ prompt' = build_prompt(get_tool_descriptions, history_blocks, user_query)
    /\ llm_out' = out
    /\ llm_calls' = llm_calls + 1
    /\ history_blocks' = Append(history_blocks,
           Block(OrElse(extract_section(out, "THOUGHT"), "(none)"), "N/A", NoEvidenceObs))
    /\ LoopBack(history_blocks')
    /\ executed' = <<>>
    /\ UNCHANGED <<step_limit, cache, tool_calls, warning, printed, db, conn, asked, driver>>
    /\ UNCHANGED <<vvars, pvars, rvars>>

\* a slip: a contradicted answer is held back like an answer without evidence
FinalAccepted_Blocking(out) ==
    /\ pc = "loop"
    /\ extract_section(out, "FINAL ANSWER") # ""
    /\ ~NoEvidenceYet(history_blocks)
    /\ prompt' = build_prompt(get_tool_descriptions, history_blocks, user_query)
    /\ llm_out' = out
    /\ llm_calls' = llm_calls + 1
    /\ warning' = _validate_final_against_evidence(extract_section(out, "FINAL ANSWER"), cache)
    /\ printed' = Warnings(_has_fresh_evidence_this_turn(history_blocks, Len(history_blocks)),
                           warning')
    /\ IF warning' # ""
       THEN /\ history_blocks' = Append(history_blocks,
                   Block(OrElse(extract_section(out, "THOUGHT"), "(none)"), "N/A", warning'))
            /\ LoopBack(history_blocks')
       ELSE /\ pc' = "returned"
            /\ result' = [kind |-> "final", text |-> extract_section(out, "FINAL ANSWER")]
            /\ UNCHANGED <<step, history_blocks>>
    /\ executed' = <<>>
    /\ UNCHANGED <<step_limit, cache, tool_calls, db, conn, asked, driver>>
    /\ UNCHANGED <<vvars, pvars, rvars>>

\* an iteration whose model output has a FINAL ANSWER while the history has a
\* block: the evidence check may print a warning, and run() returns the answer
FinalAccepted(out) ==
    /\ pc = "loop"
    /\ extract_section(out, "FINAL ANSWER") # ""
    /\ ~NoEvidenceYet(history_blocks)
    /\ prompt' = build_prompt(get_tool_descriptions, history_blocks, user_query)
    /\ llm_out' = out
    /\ llm_calls' = llm_calls + 1
    /\ warning' = _validate_final_against_evidence(extract_section(out, "FINAL ANSWER"), cache)
    /\ printed' = Warnings(_has_fresh_evidence_this_turn(history_blocks, Len(history_blocks)),
                           warning')
    /\ pc' = "returned"
    /\ result' = [kind |-> "final", text |-> extract_section(out, "FINAL ANSWER")]
    /\ executed' = <<>>
    /\ UNCHANGED <<step_limit, step, history_blocks, cache, tool_calls, db, conn, asked, driver>>
    /\ UNCHANGED <<vvars, pvars, rvars>>

\* an iteration whose model output has no FINAL ANSWER and no action that
\* parses: the ParserError block and continue
ParseFailed(out) ==
    /\ pc = "loop"
    /\ extract_section(out, "FINAL ANSWER") = ""
    /\ parse_action(out).raised
    /\ prompt' = build_prompt(get_tool_descriptions, history_blocks, user_query)
    /\ llm_out' = out
    /\ llm_calls' = llm_calls + 1
    /\ history_blocks' = Append(history_blocks,
           Block(OrElse(extract_section(out, "THOUGHT"), "(parsing failed)"), "N/A",
                 "ParserError: " \o parse_action(out).msg
                     \o ". Ensure valid JSON with double quotes."))
    /\ LoopBack(history_blocks')
    /\ executed' = <<>>
    /\ UNCHANGED <<step_limit, cache, tool_calls, warning, printed, db, conn, asked, driver>>
    /\ UNCHANGED <<vvars, pvars, rvars>>

\* run(), line 179: _call_tool on the action parse_action found
CallOf(act, c, e) == _call_tool(act.tool_name, act.args, c, e)

\* run(), lines 179-187: the iteration after _call_tool gave r for the tool
\* named tool_name
Dispatched(out, tool_name, r) ==
    /\ cache' = r.cache
    /\ db' = r.eng.db
    /\ conn' = r.eng.conn
    /\ executed' = r.ran
    /\ tool_calls' = IF r.called THEN Append(tool_calls, tool_name) ELSE tool_calls
    /\ IF r.raised
       THEN /\ pc' = "raised"
            /\ result' = [kind |-> "exception", text |-> r.exc \o ": " \o r.msg]
            /\ UNCHANGED <<step, history_blocks>>
       ELSE /\ history_blocks' = Append(history_blocks,
                   Block(OrElse(extract_section(out, "THOUGHT"), "(none)"),
                         tool_name \o PyRepr(r.args), r.obs))
            /\ LoopBack(history_blocks')

\* a slip: the action is parsed and dispatched before the FINAL ANSWER is
\* looked at
Dispatch_BeforeFinal(out) ==
    /\ pc = "loop"
    /\ ~parse_action(out).raised
    /\ prompt' = build_prompt(get_tool_descriptions, history_blocks, user_query)
    /\ llm_out' = out
    /\ llm_calls' = llm_calls + 1
    /\ \E r \in {CallOf(parse_action(out).out, cache, [db |-> db, conn |-> conn])} :
           Dispatched(out, parse_action(out).out.tool_name, r)
    /\ UNCHANGED <<step_limit, warning, printed, asked, driver>>
    /\ UNCHANGED <<vvars, pvars, rvars>>

\* an iteration whose model output has no FINAL ANSWER and an action that
\* parses: _call_tool, and the trace block unless _call_tool raised
Dispatch(out) ==
    /\ pc = "loop"
    /\ extract_section(out, "FINAL ANSWER") = ""
    /\ ~parse_action(out).raised
    /\ prompt' = build_prompt(get_tool_descriptions, history_blocks, user_query)
    /\ llm_out' = out
    /\ llm_calls' = llm_calls + 1
    /\ \E r \in {CallOf(parse_action(out).out, cache, [db |-> db, conn |-> conn])} :
           Dispatched(out, parse_action(out).out.tool_name, r)
    /\ UNCHANGED <<step_limit, warning, printed, asked, driver>>
    /\ UNCHANGED <<vvars, pvars, rvars>>

Next ==
    \/ Run
    \/ \E out \in LLMOutputs : FinalDeferred(out)
    \/ \E out \in LLMOutputs : FinalAccepted(out)
    \/ \E out \in LLMOutputs : ParseFailed(out)
    \/ \E out \in LLMOutputs : Dispatch(out)

Spec == Init /\ [][Next]_vars

-----------------------------------------------------------------------------
(* utils.parse_action on the text of a model output                        *)

PyBool(b) == [t |-> "bool", v |-> b]

\* str.replace(old, new) for a single character old
RECURSIVE Replace(_, _, _)
Replace(s, old, new) ==
    IF s = "" THEN ""
    ELSE (IF Ch(s, 1) = old THEN new ELSE Ch(s, 1)) \o Replace(SubSeq(s, 2, Len(s)), old, new)

\* The match of  ACTION:\s*(\w+)\s*(\{[^}]*\})?  at position i of text, with
\* re.IGNORECASE and re.DOTALL: group 1 and group 2 ("" when it took no part)
ActionMatchAt(text, i) ==
    LET name == Skip(text, i + 7)
        stop == RunEnd(text, name, IdentChar)
        open == Skip(text, stop)
        close == { k \in open..Len(text) : Ch(text, k) = "}" }
    IN  [tool_name |-> SubSeq(text, name, stop - 1),
         args_str |-> IF open <= Len(text) /\ Ch(text, open) = "{" /\ close # {}
                      THEN SubSeq(text, open, CHOOSE k \in close : \A m \in close : k <= m)
                      ELSE ""]

\* re.search of that pattern: the positions where it matches
ActionMatches(text) ==
    LET upper == Upper(text)
    IN  { i \in 1..Len(text) : /\ OccursAt(upper, "ACTION:", i)
                               /\ ActionMatchAt(text, i).tool_name # "" }

\* The tokens of an argument text, from position i: the punctuation { } : ,
\* a quoted string (kind "sq" or "dq" by its quote), a word (a run of word
\* characters and -), or "bad" for anything else.  Strings are taken without
\* escapes: no text of the runs holds a backslash.
RECURSIVE Tokens(_, _)
Tokens(s, i) ==
    LET j == Skip(s, i)
        close == { m \in (j + 1)..Len(s) : Ch(s, m) = Ch(s, j) }
        end == CHOOSE m \in close : \A n \in close : m <= n
        word == RunEnd(s, j, IdentChar \cup {"-"})
    IN  IF j > Len(s) THEN <<>>
        ELSE IF Ch(s, j) \in {"{", "}", ":", ","}
        THEN <<[k |-> "punct", v |-> Ch(s, j)]>> \o Tokens(s, j + 1)
        ELSE IF Ch(s, j) \in {"'", "\""}
        THEN IF close = {} THEN <<[k |-> "bad", v |-> ""]>>
             ELSE <<[k |-> IF Ch(s, j) = "'" THEN "sq" ELSE "dq", v |-> SubSeq(s, j + 1, end - 1)]>>
                      \o Tokens(s, end + 1)
        ELSE IF word > j THEN <<[k |-> "word", v |-> SubSeq(s, j, word - 1)]>> \o Tokens(s, word)
        ELSE <<[k |-> "bad", v |-> Ch(s, j)]>>

\* the text of an integer literal: digits, no leading zero, an optional sign
IsIntText(w) ==
    LET d == IF StartsWith(w, "-") THEN SubSeq(w, 2, Len(w)) ELSE w
    IN  /\ d # ""
        /\ \A k \in 1..Len(d) : Ch(d, k) \in CharsOf(Digits)
        /\ (Len(d) > 1 => Ch(d, 1) # "0")

IntOfText(w) ==
    IF StartsWith(w, "-") THEN 0 - DigitsToNat(SubSeq(w, 2, Len(w))) ELSE DigitsToNat(w)

\* a token is a string of the dialect ("json": json.loads, "python":
\* ast.literal_eval)
IsStringToken(tok, dialect) == tok.k = "dq" \/ (tok.k = "sq" /\ dialect = "python")

\* the value a token stands for in the dialect, as <<value>>, or <<>>
TokenValue(tok, dialect) ==
    IF IsStringToken(tok, dialect) THEN <<PyStr(tok.v)>>
    ELSE IF tok.k # "word" THEN <<>>
    ELSE IF IsIntText(tok.v) THEN <<PyInt(IntOfText(tok.v))>>
    ELSE IF tok.v = (IF dialect = "json" THEN "true" ELSE "True") THEN <<PyBool(TRUE)>>
    ELSE IF tok.v = (IF dialect = "json" THEN "false" ELSE "False") THEN <<PyBool(FALSE)>>
    ELSE IF tok.v = (IF dialect = "json" THEN "null" ELSE "None") THEN <<PyNone>>
    ELSE <<>>

Decoded(value) == [ok |-> TRUE, value |-> value]
NotDecoded == [ok |-> FALSE, value |-> PyNone]

IsPunct(tok, c) == tok.k = "punct" /\ tok.v = c

\* the key: value pairs between the braces; a later pair replaces an earlier
\* one of the same key; Python alone takes a comma after the last pair.
\* Keys are strings (the argument names of a tool call).
RECURSIVE Pairs(_, _, _, _)
Pairs(toks, dialect, acc, first) ==
    IF toks = <<>> THEN (IF first \/ dialect = "python" THEN Decoded(acc) ELSE NotDecoded)
    ELSE IF /\ Len(toks) >= 3
            /\ IsStringToken(toks[1], dialect)
            /\ IsPunct(toks[2], ":")
            /\ TokenValue(toks[3], dialect) # <<>>
    THEN IF Len(toks) = 3
         THEN Decoded(DictSet(acc, toks[1].v, TokenValue(toks[3], dialect)[1]))
         ELSE IF IsPunct(toks[4], ",")
         THEN Pairs(SubSeq(toks, 5, Len(toks)), dialect,
                    DictSet(acc, toks[1].v, TokenValue(toks[3], dialect)[1]), FALSE)
         ELSE NotDecoded
    ELSE NotDecoded

\* the elements of a Python set display: values with commas between
RECURSIVE Elements(_)
Elements(toks) ==
    /\ toks # <<>>
    /\ TokenValue(toks[1], "python") # <<>>
    /\ \/ Len(toks) = 1
       \/ Len(toks) = 2 /\ IsPunct(toks[2], ",")
       \/ Len(toks) > 2 /\ IsPunct(toks[2], ",") /\ Elements(SubSeq(toks, 3, Len(toks)))

\* the tokens between the braces of an argument text, as <<tokens>>, or <<>>
\* when the text is not a pair of braces around them
Braced(toks) ==
    IF Len(toks) >= 2 /\ IsPunct(toks[1], "{") /\ IsPunct(toks[Len(toks)], "}")
    THEN <<SubSeq(toks, 2, Len(toks) - 1)>> ELSE <<>>

\* json.loads(s) of an object of strings, integers, true, false and null
json_loads(s) ==
    LET inner == Braced(Tokens(s, 1))
    IN  IF inner = <<>> THEN NotDecoded ELSE Pairs(inner[1], "json", PyDict(<<>>), TRUE)

\* ast.literal_eval(s) of a dict or set display of such values; a set is the
\* value [t |-> "set"]
literal_eval(s) ==
    LET inner == Braced(Tokens(s, 1))
    IN  IF inner = <<>> THEN NotDecoded
        ELSE IF Elements(inner[1]) THEN Decoded([t |-> "set", v |-> <<>>])
        ELSE Pairs(inner[1], "python", PyDict(<<>>), TRUE)

\* fix_json_quotes(json_str)
fix_json_quotes(json_str) ==
    IF json_loads(json_str).ok THEN json_str ELSE Replace(json_str, "'", "\"")

\* parse_action, line 242
CouldNotParse(args_str_clean) ==
    Raised("ValueError", "Could not parse JSON arguments: " \o args_str_clean)

\* parse_action, lines 244-245
MustBeDict(args) ==
    IF args.t = "dict" THEN Returned(args)
    ELSE Raised("ValueError", "ACTION arguments must be a JSON object (dict)")

\* a slip: the quotes are repaired before any decoding
DecodeArgs_AlwaysRepaired(args_str_clean) ==
    LET second == json_loads(Replace(args_str_clean, "'", "\""))
        third == literal_eval(args_str_clean)
    IN  IF second.ok THEN MustBeDict(second.value)
        ELSE IF third.ok THEN MustBeDict(third.value)
        ELSE CouldNotParse(args_str_clean)

\* parse_action, lines 228-245: the three tries on the stripped argument text
DecodeArgs(args_str_clean) ==
    LET first == json_loads(args_str_clean)
        second == json_loads(fix_json_quotes(args_str_clean))
        third == literal_eval(args_str_clean)
    IN  IF first.ok THEN MustBeDict(first.value)
        ELSE IF second.ok THEN MustBeDict(second.value)
        ELSE IF third.ok THEN MustBeDict(third.value)
        ELSE CouldNotParse(args_str_clean)

\* parse_action, lines 220-258: m is the match of the pattern
ParsedMatch(m, decoded) ==
    IF decoded.raised THEN decoded
    ELSE Returned([tool_name |-> m.tool_name, args |-> decoded.out])

\* parse_action(text) on the text of a model output
ParseAction(text) ==
    LET found == ActionMatches(text)
        m == ActionMatchAt(text, CHOOSE i \in found : \A k \in found : i <= k)
    IN  IF found = {}
        THEN Raised("ValueError", "No valid ACTION found in response. "
                                   \o "Expected format: ACTION: tool_name{json_args}")
        ELSE ParsedMatch(m, IF m.args_str = "" THEN Returned(PyDict(<<>>))
                            ELSE DecodeArgs(StripChars(m.args_str, Whitespace)))

-----------------------------------------------------------------------------
(* The action parser on its own: parse_action applied to a model output,   *)
(* and to the same output with its single quotes made double.              *)

MaxPairs == 2      \* key: value pairs in a generated argument object

\* A key: value pair as a model writes it, with its key and the value that
\* each way of reading gives it (<<>> when that way cannot read the pair):
\* as strict JSON, as JSON after every ' became ", as a Python literal
PairsWritten ==
    { [text |-> "\"table_name\": \"sample\"", key |-> "table_name",
       strict |-> <<PyStr("sample")>>, repaired |-> <<PyStr("sample")>>,
       literal |-> <<PyStr("sample")>>],
      [text |-> "'table_name': 'sample'", key |-> "table_name",
       strict |-> <<>>, repaired |-> <<PyStr("sample")>>, literal |-> <<PyStr("sample")>>],
      [text |-> "\"query\": \"it's\"", key |-> "query",
       strict |-> <<PyStr("it's")>>, repaired |-> <<>>, literal |-> <<PyStr("it's")>>],
      [text |-> "'b': true", key |-> "b",
       strict |-> <<>>, repaired |-> <<PyBool(TRUE)>>, literal |-> <<>>],
      [text |-> "\"b\": true", key |-> "b",
       strict |-> <<PyBool(TRUE)>>, repaired |-> <<PyBool(TRUE)>>, literal |-> <<>>],
      [text |-> "'b': False", key |-> "b",
       strict |-> <<>>, repaired |-> <<>>, literal |-> <<PyBool(FALSE)>>],
      [text |-> "\"n\": 10", key |-> "n",
       strict |-> <<PyInt(10)>>, repaired |-> <<PyInt(10)>>, literal |-> <<PyInt(10)>>],
      [text |-> "'table_name': sample", key |-> "table_name",
       strict |-> <<>>, repaired |-> <<>>, literal |-> <<>>] }

\* the mapping of the pairs read one way, as <<mapping>>, or <<>> when that
\* way cannot read one of them
RECURSIVE ReadAs(_, _, _)
ReadAs(pairs, way, acc) ==
    IF pairs = <<>> THEN <<acc>>
    ELSE IF pairs[1][way] = <<>> THEN <<>>
    ELSE ReadAs(Tail(pairs), way, DictSet(acc, pairs[1].key, pairs[1][way][1]))

\* what the pairs mean: the first of the three ways that reads them all
Meaning(pairs) ==
    IF ReadAs(pairs, "strict", PyDict(<<>>)) # <<>> THEN ReadAs(pairs, "strict", PyDict(<<>>))
    ELSE IF ReadAs(pairs, "repaired", PyDict(<<>>)) # <<>>
    THEN ReadAs(pairs, "repaired", PyDict(<<>>))
    ELSE ReadAs(pairs, "literal", PyDict(<<>>))

\* the argument texts of the runs, each with the mapping it means (<<>> when
\* it means none), the mapping it is as a JSON object (<<>> when it is not
\* well-formed JSON) and whether it is written without a double quote
ArgsOfPairs(pairs) ==
    [text |-> "{" \o Join([k \in 1..Len(pairs) |-> pairs[k].text], ", ") \o "}",
     expect |-> Meaning(pairs),
     json |-> ReadAs(pairs, "strict", PyDict(<<>>)),
     single |-> \A k \in 1..Len(pairs) : ~Contains(pairs[k].text, "\"")]

ArgsWritten ==
    { ArgsOfPairs(pairs) : pairs \in SeqsOf(PairsWritten, 0, MaxPairs) }
    \cup
    { [text |-> "", expect |-> <<PyDict(<<>>)>>, json |-> <<>>, single |-> TRUE],
      [text |-> "{'table_name': 'sample'", expect |-> <<PyDict(<<>>)>>, json |-> <<>>,
       single |-> TRUE],
      [text |-> "{\"table_name\": \"sample\"", expect |-> <<PyDict(<<>>)>>, json |-> <<>>,
       single |-> FALSE],
      [text |-> "{'n': 10,}", expect |-> <<PyDict(<< <<"n", PyInt(10)>> >>)>>, json |-> <<>>,
       single |-> TRUE],
      [text |-> "{'sample'}", expect |-> <<>>, json |-> <<>>, single |-> TRUE],
      [text |-> "{\"filter\": {\"n\": 10}}", expect |-> <<>>,
       json |-> <<PyDict(<< <<"filter", PyDict(<< <<"n", PyInt(10)>> >>)>> >>)>>,
       single |-> FALSE],
      [text |-> "{\"query\": \"a}b\"}", expect |-> <<>>,
       json |-> <<PyDict(<< <<"query", PyStr("a}b")>> >>)>>, single |-> FALSE] }

\* what stands where the marker is due, and whether the pattern finds it
Markers ==
    { [text |-> "ACTION: ", marked |-> TRUE],
      [text |-> "action:", marked |-> TRUE],
      [text |-> "ACT ", marked |-> FALSE],
      [text |-> "", marked |-> FALSE] }

InitP ==
    /\ \E lead \in {"", "THOUGHT: I need the schema.\n"}, marker \in Markers,
          gap \in {"", " "}, args \in ArgsWritten :
            /\ ptext = lead \o marker.text \o "describe_table" \o gap \o args.text
            /\ pmade = [marked |-> marker.marked, tool |-> "describe_table",
                        args |-> args.text, expect |-> args.expect, json |-> args.json,
                        single |-> args.single]
    /\ ppc = "input"
    /\ pres = Raised("", "")
    /\ pres2 = Raised("", "")
    /\ pc = "off" /\ step_limit = 0 /\ step = 0 /\ history_blocks = <<>>
    /\ cache = EmptyCache /\ prompt = "" /\ llm_out = NoOutput /\ result = NoResult
    /\ llm_calls = 0 /\ tool_calls = <<>>
    /\ executed = <<>> /\ warning = "" /\ printed = <<>> /\ db = InitialDatabase /\ conn = Connect(TRUE)
    /\ asked = 0 /\ driver = "caller"
    /\ vq = "" /\ vrefs = {} /\ vpc = "off" /\ vres = Reject("") /\ vres2 = Reject("")
    /\ RetryOff

\* parse_action(text)
Parse ==
    /\ ppc = "input"
    /\ pres' = ParseAction(ptext)
    /\ ppc' = "parsed"
    /\ UNCHANGED <<ptext, pmade, pres2>>
    /\ UNCHANGED <<avars, vvars, rvars>>

\* parse_action on the double-quoted form of the text
ParseTwin ==
    /\ ppc = "parsed"
    /\ pres2' = ParseAction(Replace(ptext, "'", "\""))
    /\ ppc' = "twin"
    /\ UNCHANGED <<ptext, pmade, pres>>
    /\ UNCHANGED <<avars, vvars, rvars>>

NextP == Parse \/ ParseTwin

SpecP == InitP /\ [][NextP]_vars

-----------------------------------------------------------------------------
(* A session: main.main and main.interactive_mode ask one agent several    *)
(* questions, one run() after the other.                                   *)

MaxQuestions == 2    \* the questions of a session
SessionSteps == 2    \* step_limit of the agent of a session

\* the model outputs of a session
SessionOutputs ==
    { Output("I can answer.", "The answer.", NoAction),
      Output("I should explore the schema.", "", NoAction),
      Output("List tables.", "", Call("list_tables", <<>>)),
      Output("", "", Call("describe_table", << <<"table_name", PyStr("sample")>> >>)) }

\* main(), lines 78-98, and interactive_mode(), lines 161-167: the agent is
\* built and the first question is at hand
InitS ==
    /\ pc = "ready"
    /\ step_limit = SessionSteps
    /\ step = 0
    /\ history_blocks = <<>>
    /\ cache = EmptyCache
    /\ prompt = ""
    /\ llm_out = NoOutput
    /\ result = NoResult
    /\ llm_calls = 0
    /\ tool_calls = <<>>
    /\ executed = <<>>
    /\ warning = "" /\ printed = <<>>
    /\ db = InitialDatabase
    /\ conn = Connect(TRUE)
    /\ asked = 0
    /\ driver \in {"main", "interactive"}
    /\ vq = "" /\ vrefs = {} /\ vpc = "off" /\ vres = Reject("") /\ vres2 = Reject("")
    /\ ParserOff
    /\ RetryOff

\* run(), line 138: llm_complete raises (get_gemini_client's complete
\* re-raises what the API call raised), and run() lets it through
LLMFailed ==
    /\ pc = "loop"
    /\ llm_calls' = llm_calls + 1
    /\ prompt' = build_prompt(get_tool_descriptions, history_blocks, user_query)
    /\ pc' = "raised"
    /\ result' = [kind |-> "exception", text |-> "Exception: the model call failed"]
    /\ UNCHANGED <<step_limit, step, history_blocks, cache, llm_out, tool_calls,
                   executed, warning, printed, db, conn, asked, driver>>
    /\ UNCHANGED <<vvars, pvars, rvars>>

\* main(), lines 135-142: after run() returned or raised, the history is
\* reset and the loop takes the next query
MainNext ==
    /\ driver = "main"
    /\ pc \in {"returned", "raised"}
    /\ asked < MaxQuestions
    /\ history_blocks' = <<>>
    /\ pc' = "ready"
    /\ UNCHANGED <<step_limit, step, cache, prompt, llm_out, result, llm_calls, tool_calls,
                   executed, warning, printed, db, conn, asked, driver>>
    /\ UNCHANGED <<vvars, pvars, rvars>>

\* interactive_mode(), lines 169-215: after run() returned the history is
\* reset (lines 207-209); an exception of run() goes to line 214, past the
\* reset; the loop then reads the next question
InteractiveNext ==
    /\ driver = "interactive"
    /\ pc \in {"returned", "raised"}
    /\ asked < MaxQuestions
    /\ history_blocks' = IF pc = "returned" THEN <<>> ELSE history_blocks
    /\ pc' = "ready"
    /\ UNCHANGED <<step_limit, step, cache, prompt, llm_out, result, llm_calls, tool_calls,
                   executed, warning, printed, db, conn, asked, driver>>
    /\ UNCHANGED <<vvars, pvars, rvars>>

NextS ==
    \/ Run
    \/ \E out \in SessionOutputs : FinalDeferred(out)
    \/ \E out \in SessionOutputs : FinalAccepted(out)
    \/ \E out \in SessionOutputs : ParseFailed(out)
    \/ \E out \in SessionOutputs : Dispatch(out)
    \/ LLMFailed
    \/ MainNext
    \/ InteractiveNext

SpecS == InitS /\ [][NextS]_vars

-----------------------------------------------------------------------------
(* The validator on its own: validate_sql applied to a query text, and     *)
(* then to the text it accepted.                                           *)

MaxTail == 2       \* pieces following the FROM clause of a generated query

\* allowed_tables of the validator runs
AllowedTables == <<"sample", "emp">>

\* A generated query is  lead verb " " col " FROM " from tail...
Leads == {"", " "}
Verbs == {"SELECT", "select", "DELETE"}
Cols == {"*", "(DROP)", "drop;", "DROPBOX", "insertion_date", "limit_col", "'limit'"}
\* FROM clauses, each with the table names it references, as written
FromClauses ==
    { [text |-> "sample", names |-> {"sample"}],
      [text |-> "Emp", names |-> {"Emp"}],
      [text |-> "ghost", names |-> {"ghost"}],
      [text |-> "\"ghost\"", names |-> {"ghost"}],
      [text |-> "sample, ghost", names |-> {"sample", "ghost"}],
      [text |-> "sample JOIN emp", names |-> {"sample", "emp"}],
      [text |-> "sample JOIN ghost", names |-> {"sample", "ghost"}] }
TailPieces == {" ", ";", " LIMIT 5", "; SELECT 2"}

RECURSIVE Concat(_)
Concat(pieces) == IF pieces = <<>> THEN "" ELSE pieces[1] \o Concat(Tail(pieces))

InitV ==
    /\ \E lead \in Leads, verb \in Verbs, col \in Cols, from \in FromClauses,
          tail \in SeqsOf(TailPieces, 0, MaxTail) :
            /\ vq = lead \o verb \o " " \o col \o " FROM " \o from.text \o Concat(tail)
            /\ vrefs = from.names
    /\ vpc = "input"
    /\ vres = Reject("")
    /\ vres2 = Reject("")
    /\ pc = "off" /\ step_limit = 0 /\ step = 0 /\ history_blocks = <<>>
    /\ cache = EmptyCache /\ prompt = "" /\ llm_out = NoOutput /\ result = NoResult
    /\ llm_calls = 0 /\ tool_calls = <<>>
    /\ executed = <<>> /\ warning = "" /\ printed = <<>> /\ db = InitialDatabase /\ conn = Connect(TRUE)
    /\ asked = 0 /\ driver = "caller"
    /\ ParserOff
    /\ RetryOff

\* validate_sql(query, allowed_tables) on the raw query
Validate ==
    /\ vpc = "input"
    /\ vres' = validate_sql(vq, AllowedTables)
    /\ vpc' = "validated"
    /\ UNCHANGED <<vq, vrefs, vres2>>
    /\ UNCHANGED <<avars, pvars, rvars>>

\* validate_sql on the text a first validation accepted
Revalidate ==
    /\ vpc = "validated"
    /\ vres.ok
    /\ vres2' = validate_sql(vres.text, AllowedTables)
    /\ vpc' = "revalidated"
    /\ UNCHANGED <<vq, vrefs, vres>>
    /\ UNCHANGED <<avars, pvars, rvars>>

NextV == Validate \/ Revalidate

SpecV == InitV /\ [][NextV]_vars

-----------------------------------------------------------------------------
(* utils.retry_with_backoff: func is called until it returns, at most      *)
(* max_retries times, with a sleep between two attempts.                   *)

MaxRetries == 3    \* the largest max_retries the helper is called with

\* initial_delay, in seconds: whole values of the float parameter
InitialDelays == {1, 2}

\* what a call of func can do: return a value, raise an Exception, or raise
\* a BaseException that is no Exception
FuncReturns == { [kind |-> "return", type |-> "str", text |-> "ok"] }

FuncRaises ==
    { [kind |-> "raise", type |-> "TimeoutError", text |-> "timed out"],
      [kind |-> "raise", type |-> "ValueError", text |-> "bad response"] }

FuncInterrupts == { [kind |-> "raise", type |-> "KeyboardInterrupt", text |-> ""] }

\* what the raise statement does with a value that is no exception
RaiseOf(e) ==
    IF e.kind = "raise" THEN e
    ELSE [kind |-> "raise", type |-> "TypeError",
          text |-> "exceptions must derive from BaseException"]

\* str() of a whole float
FloatToStr(d) == IntToStr(d) \o ".0"

\* the line log_message prints, without its clock reading
log_message(message, level) == "[" \o level \o "] " \o message

\* retry_with_backoff(func, max_retries, initial_delay) is entered: lines
\* 361-362
InitR ==
    /\ rpc = "loop"
    /\ max_retries \in 0..MaxRetries
    /\ initial_delay \in InitialDelays
    /\ attempt = 0
    /\ delay = initial_delay
    /\ last_exception = NoException
    /\ func_made = <<>> /\ slept = <<>> /\ logged = <<>>
    /\ rres = NoException
    /\ pc = "off" /\ step_limit = 0 /\ step = 0 /\ history_blocks = <<>>
    /\ cache = EmptyCache /\ prompt = "" /\ llm_out = NoOutput /\ result = NoResult
    /\ llm_calls = 0 /\ tool_calls = <<>>
    /\ executed = <<>> /\ warning = "" /\ printed = <<>> /\ db = InitialDatabase /\ conn = Connect(TRUE)
    /\ asked = 0 /\ driver = "caller"
    /\ vq = "" /\ vrefs = {} /\ vpc = "off" /\ vres = Reject("") /\ vres2 = Reject("")
    /\ ParserOff

\* an attempt whose call of func returns: line 366
AttemptReturns(v) ==
    /\ rpc = "loop"
    /\ attempt < max_retries
    /\ func_made' = Append(func_made, v)
    /\ rres' = v
    /\ rpc' = "returned"
    /\ UNCHANGED <<max_retries, initial_delay, attempt, delay, last_exception, slept, logged>>
    /\ UNCHANGED <<avars, vvars, pvars>>

\* an attempt whose call of func raises an Exception: lines 367-377
AttemptFails(e) ==
    /\ rpc = "loop"
    /\ attempt < max_retries
    /\ func_made' = Append(func_made, e)
    /\ last_exception' = e
    /\ IF attempt < max_retries - 1
       THEN /\ logged' = logged \o
                  << log_message("Attempt " \o IntToStr(attempt + 1) \o "/"
                                     \o IntToStr(max_retries) \o " failed: " \o e.text,
                                 "WARNING"),
                     log_message("Retrying in " \o FloatToStr(delay) \o " seconds...", "INFO") >>
            /\ slept' = Append(slept, delay)
            /\ delay' = delay * 4
       ELSE /\ logged' = Append(logged,
                  log_message("Attempt " \o IntToStr(attempt + 1) \o "/"
                                  \o IntToStr(max_retries) \o " failed: " \o e.text,
                              "WARNING"))
            /\ UNCHANGED <<slept, delay>>
    /\ attempt' = attempt + 1
    /\ UNCHANGED <<rpc, max_retries, initial_delay, rres>>
    /\ UNCHANGED <<avars, vvars, pvars>>

\* an attempt whose call of func raises what "except Exception" lets through
AttemptInterrupted(e) ==
    /\ rpc = "loop"
    /\ attempt < max_retries
    /\ func_made' = Append(func_made, e)
    /\ rres' = e
    /\ rpc' = "raised"
    /\ UNCHANGED <<max_retries, initial_delay, attempt, delay, last_exception, slept, logged>>
    /\ UNCHANGED <<avars, vvars, pvars>>

\* the loop is over: raise last_exception, line 380
RaiseLast ==
    /\ rpc = "loop"
    /\ attempt >= max_retries
    /\ rres' = RaiseOf(last_exception)
    /\ rpc' = "raised"
    /\ UNCHANGED <<max_retries, initial_delay, attempt, delay, last_exception, func_made,
                   slept, logged>>
    /\ UNCHANGED <<avars, vvars, pvars>>

NextR ==
    \/ \E v \in FuncReturns : AttemptReturns(v)
    \/ \E e \in FuncRaises : AttemptFails(e)
    \/ \E e \in FuncInterrupts : AttemptInterrupted(e)
    \/ RaiseLast

SpecR == InitR /\ [][NextR]_vars

-----------------------------------------------------------------------------
(* Properties of the loop, checked under Spec                              *)

\* the latest iteration asked for a tool that is not registered
AskedUnknownTool ==
    /\ llm_calls > 0
    /\ extract_section(llm_out, "FINAL ANSWER") = ""
    /\ ~parse_action(llm_out).raised
    /\ ~IsRegistered(parse_action(llm_out).out.tool_name)

\* C1: on a step of run() that starts with an empty history, a model output
\* with a FINAL ANSWER section is not returned: the corrective block becomes
\* the only block of the history and the loop continues, to the next model
\* call or, with the budget spent, to the step-limit result.
C1_FinalDeferredOnEmptyHistory ==
    [][ ( /\ pc = "loop"
          /\ history_blocks = <<>>
          /\ llm_calls' = llm_calls + 1
          /\ extract_section(llm_out', "FINAL ANSWER") # "" )
        => /\ result'.kind # "final"
           /\ result'.text # extract_section(llm_out', "FINAL ANSWER")
           /\ history_blocks' =
                  << Block(OrElse(extract_section(llm_out', "THOUGHT"), "(none)"),
                           "N/A", NoEvidenceObs) >>
           /\ \/ pc' = "loop"
              \/ pc' = "returned" /\ result'.kind = "degraded" /\ step' = step_limit
      ]_vars

\* C1 witness: a FINAL ANSWER was deferred and the loop awaits the model again
C1_Witness ==
    /\ pc = "loop"
    /\ llm_calls = 1
    /\ extract_section(llm_out, "FINAL ANSWER") # ""
    /\ history_blocks = << Block("I can answer.", "N/A", NoEvidenceObs) >>
    /\ result = NoResult

\* C2: a run() that starts with an empty history returns a FINAL ANSWER only
\* after a registry tool was invoked in that run.
C2_FinalAnswerGrounded ==
    (pc = "returned" /\ result.kind = "final") => tool_calls # <<>>

\* C3: when the model names a tool that is not registered, run() does not
\* raise: the latest block of the history carries an ERROR observation.
C3_UnknownToolObserved ==
    AskedUnknownTool =>
        /\ pc # "raised"
        /\ history_blocks # <<>>
        /\ Contains(history_blocks[Len(history_blocks)], "\nOBSERVATION: ERROR: ")

\* C4: run() makes at most step_limit model calls, and when it ends without
\* an accepted FINAL ANSWER it made exactly step_limit iterations and
\* returned the step-limit result.
C4_StepBudget ==
    /\ llm_calls <= step_limit
    /\ (pc \in {"returned", "raised"} /\ result.kind # "final") =>
           /\ llm_calls = step_limit
           /\ step = step_limit
           /\ result.kind = "degraded"
           /\ StartsWith(result.text, "Max step limit reached")

-----------------------------------------------------------------------------
(* Properties of the tools inside the loop, checked under Spec             *)

\* the latest iteration dispatched the registered tool name with the
\* argument mapping args (as the model wrote it)
LatestCall(name, args) ==
    /\ llm_calls > 0
    /\ extract_section(llm_out, "FINAL ANSWER") = ""
    /\ llm_out.act.kind = "call"
    /\ llm_out.act.name = name
    /\ llm_out.act.args = args

\* the block the latest iteration appended
LastBlock == history_blocks[Len(history_blocks)]

\* C11: whatever tools the model calls with whatever arguments, and whether
\* the connection was opened read-only or not, the database keeps the
\* contents it had when the agent was built.
C11_DatabaseUnchanged ==
    db = InitialDatabase

\* C11 witness: with the read-only open failed, the model sent a DROP TABLE
\* inside the name of describe_table and a DELETE to query_database
C11_Witness ==
    /\ ~conn.ro
    /\ LatestCall("describe_table",
                  PyDict(<< <<"table_name", PyStr("sample); DROP TABLE sample; --")>> >>))
    /\ executed = <<"PRAGMA table_info(sample); DROP TABLE sample; --)">>
    /\ \E k \in 1..Len(history_blocks) :
           Contains(history_blocks[k], "query_database{'query': 'DELETE FROM sample'}")

\* the query the latest iteration sent to query_database does not begin,
\* trimmed and uppercased, with SELECT
LatestQueryNotSelect ==
    /\ llm_calls > 0
    /\ extract_section(llm_out, "FINAL ANSWER") = ""
    /\ llm_out.act.kind = "call"
    /\ llm_out.act.name = "query_database"
    /\ DictKeys(llm_out.act.args) = <<"query">>
    /\ DictGet(llm_out.act.args, "query").t = "str"
    /\ ~StartsWith(Upper(StripChars(DictGet(llm_out.act.args, "query").v, Whitespace)), "SELECT")

NotSelectObservation == "{\"error\": \"Only SELECT queries are allowed (read-only mode)\"}"

\* what C12 says of the step apart from the statements executed: the
\* observation is exactly the read-only error, it is in the trace block the
\* step appended, and the step does not end the question with an answer
NotSelectStep ==
    /\ history_blocks # <<>>
    /\ LastBlock = Block(OrElse(extract_section(llm_out, "THOUGHT"), "(none)"),
                         "query_database" \o PyRepr(llm_out.act.args), NotSelectObservation)
    /\ result.kind # "final"
    /\ pc # "raised"

\* C12 as stated: for a query that does not begin with SELECT, query_database
\* executes nothing on the connection, the observation is exactly the
\* read-only error whatever else is wrong with the text, and the step appends
\* a trace block without ending the question.
C12_NothingExecuted ==
    LatestQueryNotSelect => (executed = <<>> /\ NotSelectStep)

\* C12 amended: for a query that does not begin with SELECT, query_database
\* executes only its own listing of the tables, never the query; the
\* observation is exactly the read-only error whatever else is wrong with the
\* text, and the step appends a trace block without ending the question.
C12_QueryNotExecuted ==
    LatestQueryNotSelect => (executed = <<ListTablesSql>> /\ NotSelectStep)

\* C12 witness: after the refused DELETE a valid query ran and a FINAL ANSWER
\* completed the question
C12_Witness ==
    /\ result.kind = "final"
    /\ Len(history_blocks) = 2
    /\ Contains(history_blocks[1], "ACTION: query_database{'query': 'DELETE FROM sample'}")
    /\ Contains(history_blocks[1], "OBSERVATION: " \o NotSelectObservation)
    /\ Contains(history_blocks[2], "\"row_count\": 2")

\* the latest iteration asked describe_table for a table under the key
\* "table" alone
LatestAliasCall ==
    /\ llm_calls > 0
    /\ extract_section(llm_out, "FINAL ANSWER") = ""
    /\ llm_out.act.kind = "call"
    /\ llm_out.act.name = "describe_table"
    /\ DictKeys(llm_out.act.args) = <<"table">>

\* C15: describe_table called with the key "table" gives the observation and
\* the cache entry that the same call with the key "table_name" gives.
C15_AliasSameAsTableName ==
    LatestAliasCall =>
        \E r \in { _call_tool("describe_table",
                              PyDict(<< <<"table_name", DictGet(llm_out.act.args, "table")>> >>),
                              EmptyCache, [db |-> db, conn |-> conn]) } :
            /\ history_blocks # <<>>
            /\ Contains(LastBlock, "\nOBSERVATION: " \o r.obs)
            /\ DictGet(cache.schema, DictGet(llm_out.act.args, "table"))
                   = DictGet(r.cache.schema, DictGet(llm_out.act.args, "table"))

\* the step now taken reads a model output with no FINAL ANSWER and no
\* action that can be parsed
ParseFailureStep ==
    /\ pc = "loop"
    /\ llm_calls' = llm_calls + 1
    /\ extract_section(llm_out', "FINAL ANSWER") = ""
    /\ llm_out'.act.kind \in {"none", "bad"}

\* C17: a step whose model output has no FINAL ANSWER and no action that
\* parses dispatches no tool, executes nothing, appends exactly one block,
\* whose observation tells the parse error, and the loop goes on (to the next
\* model call, or to the step-limit result when the budget is spent).
C17_ParseFailureRecovered ==
    [][ ParseFailureStep =>
           /\ tool_calls' = tool_calls
           /\ executed' = <<>>
           /\ cache' = cache
           /\ Len(history_blocks') = Len(history_blocks) + 1
           /\ SubSeq(history_blocks', 1, Len(history_blocks)) = history_blocks
           /\ Contains(history_blocks'[Len(history_blocks')],
                       "\nACTION: N/A\nOBSERVATION: ParserError: "
                           \o (IF llm_out'.act.kind = "none" THEN "No valid ACTION found"
                               ELSE "Could not parse JSON arguments: " \o llm_out'.act.text))
           /\ \/ pc' = "loop"
              \/ pc' = "returned" /\ result'.kind = "degraded" /\ step' = step_limit
      ]_vars

\* C17 witness: after a parse failure a well-formed action ran and a FINAL
\* ANSWER completed the question
C17_Witness ==
    /\ result.kind = "final"
    /\ Len(history_blocks) = 2
    /\ Contains(history_blocks[1], "OBSERVATION: ParserError: Could not parse JSON arguments")
    /\ tool_calls = <<"describe_table">>

\* the step now taken dispatches a registered tool
RegisteredToolStep ==
    /\ pc = "loop"
    /\ llm_calls' = llm_calls + 1
    /\ extract_section(llm_out', "FINAL ANSWER") = ""
    /\ llm_out'.act.kind = "call"
    /\ IsRegistered(llm_out'.act.name)

C19_BlocksOnlyFromDispatch ==
    /\ Len(history_blocks) <= Len(tool_calls)
    /\ \A k \in 1..Len(history_blocks) : ~Contains(history_blocks[k], "\nACTION: N/A\n")

\* the step now taken reads a FINAL ANSWER while the history holds a block
FinalAcceptedStep ==
    /\ pc = "loop"
    /\ history_blocks # <<>>
    /\ llm_calls' = llm_calls + 1
    /\ extract_section(llm_out', "FINAL ANSWER") # ""

\* C20: an accepted FINAL ANSWER is returned as extracted, whether the
\* evidence check warns or not, and the check leaves history and cache alone.
C20_CheckNonBlocking ==
    [][ FinalAcceptedStep =>
           /\ pc' = "returned"
           /\ result' = [kind |-> "final", text |-> extract_section(llm_out', "FINAL ANSWER")]
           /\ history_blocks' = history_blocks
           /\ cache' = cache
      ]_vars

\* C20 witness: the answer claims 50 rows of a table the cache knows to have
\* 2; the warning is printed and the answer returned
C20_Witness ==
    /\ pc = "returned"
    /\ result = [kind |-> "final", text |-> "There are 50 rows in sample."]
    /\ warning = "Warning: Claimed 50 rows, actual 2."

\* the step now taken is an iteration of the loop: the model is asked
LoopStep == pc = "loop" /\ llm_calls' = llm_calls + 1

\* C21: in a run() started with an empty history every iteration that does
\* not return appends exactly one block and the iteration that returns a
\* FINAL ANSWER appends none, so an answer returned after k iterations leaves
\* k blocks; the history is never longer than the step limit.
C21_OneBlockPerIteration ==
    /\ [](Len(history_blocks) <= step_limit)
    /\ []((pc = "returned" /\ result.kind = "final") => Len(history_blocks) = llm_calls - 1)
    /\ [][ LoopStep =>
             IF result'.kind = "final"
             THEN history_blocks' = history_blocks
             ELSE /\ Len(history_blocks') = Len(history_blocks) + 1
                  /\ SubSeq(history_blocks', 1, Len(history_blocks)) = history_blocks
         ]_vars

\* the latest iteration dispatched the registered tool name and the tool
\* returned: the block it appended carries no ERROR observation
LatestSucceeded(name) ==
    /\ llm_calls > 0
    /\ extract_section(llm_out, "FINAL ANSWER") = ""
    /\ llm_out.act.kind = "call"
    /\ llm_out.act.name = name
    /\ pc # "raised"
    /\ ~Contains(LastBlock, "\nOBSERVATION: ERROR: ")

\* the names of the columns of the table named t, in the table's order
ColumnNames(t) ==
    PyList([k \in 1..Len(TableOf(db, t).columns) |-> PyStr(TableOf(db, t).columns[k][1])])

\* C22: after a successful list_tables the cache's tables is the list the
\* tool returned; after a successful describe_table of t the cache's
\* schema[t] is the list of the column names returned, in their order, and
\* row_counts[t] the row count returned.
C22_CacheHoldsWhatToolsReturned ==
    /\ LatestSucceeded("list_tables") =>
           /\ cache.tables = PyList([k \in 1..Len(db) |-> PyStr(db[k].name)])
           /\ Contains(LastBlock, "\nOBSERVATION: " \o PyRepr(cache.tables))
    /\ LatestSucceeded("describe_table") =>
           \E t \in {DictGet(llm_out.act.args, "table_name")} :
               /\ DictGet(cache.schema, t) = ColumnNames(t.v)
               /\ DictGet(cache.row_counts, t) = PyInt(Len(TableOf(db, t.v).rows))
               /\ Contains(LastBlock, "\"row_count\": "
                                          \o IntToStr(DictGet(cache.row_counts, t).v) \o "}")

\* C22 witness: list_tables and then describe_table of sample succeeded
C22_Witness ==
    /\ Len(history_blocks) = 2
    /\ tool_calls = <<"list_tables", "describe_table">>
    /\ LatestSucceeded("describe_table")
    /\ cache.tables = PyList(<<PyStr("emp"), PyStr("sample")>>)
    /\ DictGet(cache.schema, PyStr("sample")) = PyList(<<PyStr("id"), PyStr("gender")>>)
    /\ DictGet(cache.row_counts, PyStr("sample")) = PyInt(2)

\* the observation a trace block carries
ObservationOf(block) ==
    LET at == { i \in 1..Len(block) : OccursAt(block, "\nOBSERVATION: ", i) }
    IN  SubSeq(block, (CHOOSE i \in at : \A k \in at : i <= k) + 14, Len(block))

TruncationMarker == " ...[truncated]"

\* C23: the observation of every trace block is capped: it is never longer
\* than 2000 characters plus the truncation marker, and one longer than 2000
\* characters ends with the marker.
C23_ObservationCapped ==
    \A k \in 1..Len(history_blocks) :
        \E obs \in {ObservationOf(history_blocks[k])} :
            /\ Len(obs) <= ObsCap + Len(TruncationMarker)
            /\ Len(obs) > ObsCap =>
                   SubSeq(obs, Len(obs) - Len(TruncationMarker) + 1, Len(obs)) = TruncationMarker

\* run() returned the FINAL ANSWER of the latest model output
AnswerReturned ==
    /\ pc = "returned"
    /\ result.kind = "final"
    /\ result.text = extract_section(llm_out, "FINAL ANSWER")

\* the names of the cache's tables, in lower case
KnownTables == { Lower(cache.tables.v[k].v) : k \in 1..Len(cache.tables.v) }

\* the table-like tokens of a text: the words that follow the word "table"
TableLikeTokens(text) ==
    { SubSeq(text, i + 6, RunEnd(text, i + 6, IdentChar) - 1) :
          i \in { k \in 1..Len(text) : OccursAt(text, "table ", k) } } \ {""}

\* C24: when the cache holds tables and the returned answer has the word
\* "table", the name of a known table and a table-like token that is no known
\* table, the check gave the table mismatch warning.
C24_UnknownTableFlagged ==
    ( /\ AnswerReturned
      /\ KnownTables # {}
      /\ Contains(Lower(result.text), "table")
      /\ \E t \in KnownTables : Contains(Lower(result.text), t)
      /\ \E w \in TableLikeTokens(Lower(result.text)) : w \notin KnownTables )
    => StartsWith(warning, "Warning: Answer tables")

\* the numbers a text states as a count of rows: each whole run of digits
\* that white space and the word "rows" follow
StatedRows(text) ==
    { DigitsToNat(SubSeq(text, i, RunEnd(text, i, CharsOf(Digits)) - 1)) :
          i \in { k \in 1..Len(text) :
                      /\ Ch(text, k) \in CharsOf(Digits)
                      /\ (k > 1 => Ch(text, k - 1) \notin CharsOf(Digits))
                      /\ Skip(text, RunEnd(text, k, CharsOf(Digits)))
                             > RunEnd(text, k, CharsOf(Digits))
                      /\ OccursAt(text, "rows", Skip(text, RunEnd(text, k, CharsOf(Digits)))) } }

\* C25: when the cache holds the row count c of the table and the returned
\* answer states n rows, a mismatch is flagged exactly when n and c differ by
\* more than 5, whatever the number of digits of n.
C25_RowCountTolerance ==
    ( /\ AnswerReturned
      /\ DictHas(cache.row_counts, PyStr("sample"))
      /\ StatedRows(Lower(result.text)) # {} )
    => \A n \in StatedRows(Lower(result.text)) :
           \E c \in {DictGet(cache.row_counts, PyStr("sample")).v} :
               (warning # "") <=> (n - c > 5 \/ c - n > 5)

\* the entries of the dicts d and e agree except at key
SameExceptAt(d, e, key) ==
    \A k \in { d.v[i][1] : i \in 1..Len(d.v) } \cup { e.v[i][1] : i \in 1..Len(e.v) } :
        k # key => (DictHas(d, k) /\ DictHas(e, k) /\ DictGet(d, k) = DictGet(e, k))

\* results of a shape no tool of the registry returns
OddResults ==
    { PyNone, PyStr("sample"), PyInt(2), PyDict(<<>>),
      PyDict(<< <<"columns", PyStr("id")>>, <<"row_count", PyStr("2")>> >>) }

\* the step now taken dispatches name and the tool returns a value
ToolReturnsStep(name) ==
    /\ LoopStep
    /\ extract_section(llm_out', "FINAL ANSWER") = ""
    /\ llm_out'.act.kind = "call"
    /\ llm_out'.act.name = name
    /\ ~ToolCall(name, llm_out'.act.args, [db |-> db, conn |-> conn]).raised

FinalAndActionStep ==
    /\ LoopStep
    /\ extract_section(llm_out', "FINAL ANSWER") # ""
    /\ llm_out'.act.kind = "call"

\* C29: the FINAL ANSWER is handled before the action is parsed: a model
\* output with both dispatches no tool; the answer is returned when the
\* history holds a block, else the corrective block alone is appended; and
\* every step makes one model call and at most one tool dispatch.
C29_FinalBeforeAction ==
    [][ /\ FinalAndActionStep =>
              /\ tool_calls' = tool_calls
              /\ executed' = <<>>
              /\ cache' = cache
              /\ IF history_blocks # <<>>
                 THEN /\ pc' = "returned"
                      /\ result' = [kind |-> "final",
                                    text |-> extract_section(llm_out', "FINAL ANSWER")]
                      /\ history_blocks' = history_blocks
                 ELSE /\ result'.kind # "final"
                      /\ history_blocks' =
                             << Block(OrElse(extract_section(llm_out', "THOUGHT"), "(none)"),
                                      "N/A", NoEvidenceObs) >>
        /\ pc = "loop" =>
              /\ llm_calls' = llm_calls + 1
              /\ \/ tool_calls' = tool_calls
                 \/ \E name \in {ToolNames[k] : k \in 1..Len(ToolNames)} :
                        tool_calls' = Append(tool_calls, name)
      ]_vars

\* C29 witness: after a list_tables step the model wrote a FINAL ANSWER with
\* an ACTION, and the answer was returned without a second dispatch
C29_Witness ==
    /\ pc = "returned"
    /\ result = [kind |-> "final", text |-> "The answer."]
    /\ llm_out.act.kind = "call"
    /\ llm_calls = 2
    /\ tool_calls = <<"list_tables">>
    /\ Len(history_blocks) = 1

\* C30: the no-fresh-evidence warning is advisory: a step that accepts a
\* FINAL ANSWER adds no block, prints the warning and returns the answer all
\* the same, so the warning accompanies every accepted answer; no other step
\* prints it.
C30_FreshEvidenceWarningAdvisory ==
    [][ LoopStep =>
          /\ FinalAcceptedStep =>
                 /\ history_blocks' = history_blocks
                 /\ printed' # <<>>
                 /\ printed'[1] = NoFreshEvidenceMsg
                 /\ pc' = "returned"
                 /\ result' = [kind |-> "final",
                               text |-> extract_section(llm_out', "FINAL ANSWER")]
          /\ ~FinalAcceptedStep => (printed' = printed /\ result'.kind # "final")
      ]_vars

\* C30 witness: an answer was returned with the no-fresh-evidence warning and
\* the mismatch warning printed before it
C30_Witness ==
    /\ pc = "returned"
    /\ result = [kind |-> "final", text |-> "There are 50 rows in sample."]
    /\ printed = <<NoFreshEvidenceMsg, "Warning: Claimed 50 rows, actual 2.">>

\* the trace section of a prompt and what follows it, for the given blocks
PromptTail(blocks) ==
    "\n\nCONVERSATION TRACE:\n"
        \o (IF blocks = <<>> THEN "(none yet)" ELSE Join(blocks, "\n"))
        \o "\n\nUser: " \o user_query
        \o "\n\nRespond using the strict FORMAT above."

\* str.endswith
EndsWith(s, p) == Len(s) >= Len(p) /\ SubSeq(s, Len(s) - Len(p) + 1, Len(s)) = p

\* C31: within one run() the history only grows at its end: every step
\* leaves the blocks it found in place and in order, and the prompt of every
\* iteration holds all the blocks appended so far, in their order.
C31_HistoryAppendOnly ==
    [][ /\ Len(history_blocks') >= Len(history_blocks)
        /\ SubSeq(history_blocks', 1, Len(history_blocks)) = history_blocks
        /\ LoopStep => EndsWith(prompt', PromptTail(history_blocks))
      ]_vars

\* C31 witness: the third iteration was given a prompt with the two blocks of
\* the first two, the older one first
C31_Witness ==
    /\ llm_calls = 3
    /\ Len(history_blocks) = 3
    /\ history_blocks[1] # history_blocks[2]
    /\ EndsWith(prompt, PromptTail(<<history_blocks[1], history_blocks[2]>>))

-----------------------------------------------------------------------------
(* Properties of a session, checked under SpecS                            *)

\* run() was called and has not asked the model yet
QuestionStarts == pc = "loop" /\ llm_calls = 0

\* C13: when a question starts the history is empty, however the question
\* before it ended.
C13_HistoryPerQuestion ==
    QuestionStarts => history_blocks = <<>>

\* C14: when a question starts the evidence cache is empty.
C14_CachePerQuestion ==
    QuestionStarts => cache = EmptyCache

-----------------------------------------------------------------------------
(* Properties of the action parser, checked under SpecP                    *)

SingleQuotedExample == "ACTION: describe_table{'table_name': 'sample'}"

\* C26: parse_action returns an empty mapping only when no argument text
\* follows the tool name (or the text is the empty object); argument text
\* that no strategy decodes to a mapping raises the parse error carrying the
\* text as written.
C26_NoSilentEmptyMapping ==
    (ppc \in {"parsed", "twin"} /\ pmade.marked) =>
        /\ (~pres.raised /\ pres.out.args = PyDict(<<>>)) => pmade.args \in {"", "{}"}
        /\ (pmade.args # "" /\ pmade.expect = <<>>) =>
               /\ pres.raised
               /\ pres.exc = "ValueError"
               /\ Contains(pres.msg, pmade.args)

\* C27: the argument text being a well-formed JSON object, parse_action
\* returns the tool name with exactly the mapping the object denotes, a
\* nested mapping or a string holding "}" among its values included.
C27_JsonObjectParsed ==
    (ppc \in {"parsed", "twin"} /\ pmade.marked /\ pmade.json # <<>>) =>
        pres = Returned([tool_name |-> pmade.tool, args |-> pmade.json[1]])

\* C16: parse_action reads the arguments as strict JSON, else as JSON after
\* the quote repair, else as a Python literal, and the first that reads them
\* gives the mapping; a single-quoted argument object parses to what its
\* double-quoted form parses to; a text without the ACTION marker raises the
\* parse error.
C16_DecodingOrder ==
    ppc # "input" =>
        /\ ~pmade.marked => (pres.raised /\ StartsWith(pres.msg, "No valid ACTION found"))
        /\ (pmade.marked /\ pmade.expect = <<>>) =>
              (pres.raised /\ ~StartsWith(pres.msg, "No valid ACTION found"))
        /\ (pmade.marked /\ pmade.expect # <<>>) =>
              pres = Returned([tool_name |-> pmade.tool, args |-> pmade.expect[1]])
        /\ (ppc = "twin" /\ pmade.marked /\ pmade.single) =>
              /\ pres2.raised = pres.raised
              /\ ~pres.raised => pres2 = pres
        /\ ptext = SingleQuotedExample =>
              pres = Returned([tool_name |-> "describe_table",
                               args |-> PyDict(<< <<"table_name", PyStr("sample")>> >>)])

\* C16 witness: the single-quoted example and its double-quoted form were
\* both parsed, to the same tool and mapping
C16_Witness ==
    /\ ppc = "twin"
    /\ ptext = SingleQuotedExample
    /\ ~pres.raised
    /\ pres.out.args = PyDict(<< <<"table_name", PyStr("sample")>> >>)
    /\ pres2 = pres

-----------------------------------------------------------------------------
(* Properties of the validator, checked under SpecV                        *)

\* kw occurs in s at position i in any letter case, as a whole word
WholeWordAt(s, kw, i) ==
    /\ i + Len(kw) - 1 <= Len(s)
    /\ Upper(SubSeq(s, i, i + Len(kw) - 1)) = kw
    /\ (i = 1 \/ Ch(s, i - 1) \notin IdentChar)
    /\ (i + Len(kw) > Len(s) \/ Ch(s, i + Len(kw)) \notin IdentChar)

HasForbiddenWord(s) ==
    \E k \in 1..Len(forbidden) : \E i \in 1..Len(s) : WholeWordAt(s, forbidden[k], i)

\* s has a row-limiting clause: the word LIMIT, whitespace, a number
HasRowLimit(s) ==
    \E i \in 1..Len(s) :
        /\ WholeWordAt(s, "LIMIT", i)
        /\ LET n == RunEnd(s, i + 5, Whitespace)
           IN  n > i + 5 /\ n <= Len(s) /\ Ch(s, n) \in CharsOf(Digits)

AllowedUpper == { Upper(AllowedTables[k]) : k \in 1..Len(AllowedTables) }

\* C5: a query holding a forbidden keyword as a whole word, in any letter case
\* and also next to punctuation, is rejected; a query holding none is never
\* rejected for a forbidden keyword (a keyword inside a longer identifier does
\* not by itself reject).
C5_ForbiddenWordRejected ==
    vpc # "input" =>
        /\ HasForbiddenWord(vq) => ~vres.ok
        /\ ~HasForbiddenWord(vq) => ~(~vres.ok /\ StartsWith(vres.text, "Forbidden keyword"))

\* C5 witness: a lower-case keyword next to punctuation, in a SELECT, rejected
\* for the keyword
C5_Witness ==
    /\ vpc = "validated"
    /\ vq = "SELECT drop; FROM sample"
    /\ vres = Reject(ForbiddenMsg("DROP"))

\* C6: no accepted query references, after FROM or JOIN, a table that is not
\* (case-insensitively, quotes stripped) in allowed_tables.
C6_NoUnknownTableAccepted ==
    (vpc # "input" /\ vres.ok) => \A t \in vrefs : Upper(t) \in AllowedUpper

\* C7: with allowed_tables = sample, emp: SELECT * FROM ghost is rejected with
\* a reason naming ghost as the query wrote it and listing the known tables,
\* SELECT * FROM sample is accepted, and every unknown-table rejection names
\* a table as the query wrote it.
C7_RejectionNamesTable ==
    vpc # "input" =>
        /\ vq = "SELECT * FROM ghost" =>
              /\ ~vres.ok
              /\ Contains(vres.text, "'ghost'")
              /\ Contains(vres.text, Join(AllowedTables, ", "))
        /\ vq = "SELECT * FROM sample" => vres.ok
        /\ (~vres.ok /\ StartsWith(vres.text, "Unknown or disallowed table")) =>
              \E t \in vrefs : Contains(vres.text, "'" \o t \o "'")

\* C8: every accepted query text carries a row-limiting clause.
C8_AcceptedHasRowLimit ==
    (vpc # "input" /\ vres.ok) => HasRowLimit(vres.text)

\* C9: validating an accepted text again accepts it with the text unchanged.
C9_Idempotent ==
    vpc = "revalidated" => vres2 = vres

\* s has a statement separator followed by further statement text
SeparatorThenText(s) ==
    \E i \in 1..Len(s) :
        /\ Ch(s, i) = ";"
        /\ StripChars(SubSeq(s, i + 1, Len(s)), Whitespace \cup {";"}) # ""

\* C10: no accepted query text holds a statement separator followed by
\* further statement text.
C10_SingleStatement ==
    (vpc # "input" /\ vres.ok) => ~SeparatorThenText(vres.text)

-----------------------------------------------------------------------------
(* Properties of the retry helper, checked under SpecR                     *)

\* the latest call of func
LastMade == func_made[Len(func_made)]

\* C32: retry_with_backoff calls func at most max_retries times; it returns
\* the result of the first call that succeeds and calls no more; it sleeps
\* only between two attempts, first for initial_delay and then each time for
\* 4 times the sleep before; and when every attempt failed it raises the
\* exception of the last attempt, for every max_retries >= 0.
C32_RetryWithBackoff ==
    /\ Len(func_made) <= max_retries
    /\ rpc = "returned" =>
           /\ func_made # <<>>
           /\ rres = LastMade
           /\ \A k \in 1..Len(func_made) : (func_made[k].kind = "return") <=> (k = Len(func_made))
    /\ \A k \in 1..Len(slept) : slept[k] = IF k = 1 THEN initial_delay ELSE 4 * slept[k - 1]
    /\ Len(slept) <= Len(func_made)
    /\ (slept # <<>> /\ Len(slept) = Len(func_made)) =>
           (rpc = "loop" /\ Len(func_made) < max_retries)
    /\ rpc = "raised" =>
           /\ func_made # <<>>
           /\ LastMade.kind = "raise"
           /\ rres = LastMade

====
